---- MODULE Spec2Model ----
(***************************************************************************)
(* Extraction of a minimum-cost program from an e-graph: a model of the    *)
(* extractors of src/src/extract.  An e-graph is a sequence of nodes; the  *)
(* NodeId of a node is its index in that sequence (egraph.nodes is an      *)
(* IndexMap kept in insertion order) and NodeIds compare by index.  A      *)
(* child of a node is stored in the source as the NodeId of some node of   *)
(* the child class and is always read through nid_to_cid, so the model     *)
(* stores the child's ClassId.  Costs are naturals; INFINITY is absorbing. *)
(***************************************************************************)
EXTENDS Integers, Sequences, FiniteSets, TLC

VARIABLES egraph, bu, fgd, td, wl, ilp, driver, topk, beam, dc, trie

vars == <<egraph, bu, fgd, td, wl, ilp, driver, topk, beam, dc, trie>>

(***************************************************************************)
(* Bounds of the e-graphs explored.                                        *)
(***************************************************************************)
MaxCost == 2

\* The greatest node cost of the e-graphs explored for the ILP extractors.
ILPMaxCost == 1

ClassIds == {1, 2, 3}

Ops == {"f"}

\* Child lists a node may carry: none, one class, two classes, one class twice.
ChildLists ==
  {<<>>, <<1>>, <<2>>, <<3>>, <<1, 2>>, <<2, 3>>, <<1, 1>>}

\* The shapes explored: the class of each node, in NodeId order, the root
\* classes, the child lists and operators the nodes draw from, and the
\* greatest node cost.
Shapes ==
  { [lay |-> <<1, 2, 2, 3>>, roots |-> <<3>>, lists |-> ChildLists, ops |-> Ops, max_cost |-> MaxCost],
    [lay |-> <<2, 3, 1, 2>>, roots |-> <<2, 3>>, lists |-> ChildLists, ops |-> Ops, max_cost |-> MaxCost] }

\* A shape with a fifth node, over fewer child lists.
WideShapes ==
  { [lay |-> <<1, 2, 2, 3, 1>>, roots |-> <<3>>,
     lists |-> {<<>>, <<1>>, <<2>>, <<3>>, <<1, 2>>}, ops |-> Ops, max_cost |-> MaxCost] }

\* A shape whose nodes carry one of two operator labels.
LabelledShapes ==
  { [lay |-> <<1, 2, 2, 3>>, roots |-> <<3>>,
     lists |-> {<<>>, <<1>>, <<3>>, <<1, 2>>}, ops |-> {"f", "g"}, max_cost |-> MaxCost] }

INFINITY == 1000000

(***************************************************************************)
(* Helpers on sequences, maps and costs.                                   *)
(***************************************************************************)
Range(s) == {s[i] : i \in DOMAIN s}

EmptyMap == [x \in {} |-> 0]

Put(m, k, v) == [x \in (DOMAIN m) \cup {k} |-> IF x = k THEN v ELSE m[x]]

\* Width of the significand of a Cost.  f64 has 53 bits; the width is scaled
\* down so that sums beyond it stay below INFINITY.  Costs are non-negative
\* integers: those below 2^MantissaBits are exact, larger ones are multiples
\* of their unit in the last place.
MantissaBits == 19

Significand == 2^MantissaBits

\* The unit in the last place of a sum s, found from unit u upwards
RECURSIVE ulp_of(_, _)
ulp_of(s, u) == IF s < Significand * u THEN u ELSE ulp_of(s, 2 * u)

\* The sum s rounded to the nearest Cost, a tie to the even significand
round_cost(s) ==
  IF s < Significand THEN s
  ELSE LET u == ulp_of(s, 1)
           q == s \div u
           rem == s % u
       IN IF rem = 0 THEN s
          ELSE IF 2 * rem < u THEN q * u
          ELSE IF 2 * rem > u THEN (q + 1) * u
          ELSE IF q % 2 = 0 THEN q * u ELSE (q + 1) * u

\* Cost addition of NotNan<f64>: +inf is absorbing, a finite sum is rounded.
CostAdd(a, b) ==
  IF a = INFINITY \/ b = INFINITY THEN INFINITY ELSE round_cost(a + b)

\* Cost subtraction (`*c -= min_cost`): the difference is rounded as well.
CostSub(a, b) ==
  IF a = INFINITY THEN INFINITY ELSE round_cost(a - b)

\* Iterator::sum of Costs: the additions from the left, starting at zero
RECURSIVE sum_from(_, _)
sum_from(acc, s) ==
  IF s = <<>> THEN acc ELSE sum_from(CostAdd(acc, Head(s)), Tail(s))

sum_costs(s) == sum_from(0, s)

\* costs.get(cid).unwrap_or(&INFINITY)
CostOf(costs, cid) == IF cid \in DOMAIN costs THEN costs[cid] ELSE INFINITY

SumSeq(s) == sum_costs(s)

RECURSIVE SumOver(_, _)
SumOver(f, S) ==
  IF S = {} THEN 0
  ELSE LET x == CHOOSE y \in S : TRUE IN CostAdd(f[x], SumOver(f, S \ {x}))

(***************************************************************************)
(* The e-graph (egraph_serialize::EGraph as the extractors read it).       *)
(***************************************************************************)
NodeIdsOf(g) == DOMAIN g.nodes

\* nid_to_cid
nid_to_cid(g, n) == g.nodes[n].eclass

RECURSIVE ClassOrder(_, _, _)
ClassOrder(g, i, acc) ==
  IF i > Len(g.nodes) THEN acc
  ELSE ClassOrder(g, i + 1,
         IF g.nodes[i].eclass \in Range(acc) THEN acc
         ELSE Append(acc, g.nodes[i].eclass))

\* egraph.classes(): the classes in order of first appearance
classes(g) == ClassOrder(g, 1, <<>>)

\* class.nodes: the NodeIds of a class, in insertion order
ClassNodes(g, c) == SelectSeq([i \in 1..Len(g.nodes) |-> i],
                              LAMBDA n : g.nodes[n].eclass = c)

RECURSIVE ConcatClassNodes(_, _)
ConcatClassNodes(g, cs) ==
  IF cs = <<>> THEN <<>>
  ELSE ClassNodes(g, Head(cs)) \o ConcatClassNodes(g, Tail(cs))

\* The order of `for class in egraph.classes().values() { for node in &class.nodes`
SweepOrder(g) == ConcatClassNodes(g, classes(g))

is_leaf(g, n) == g.nodes[n].children = <<>>

\* The e-graph of a layout, a cost and a child list and an op per node, and
\* a root list.
MkEGraph(lay, cs, ch, op, r) ==
  [nodes |-> [i \in DOMAIN lay |->
                [eclass |-> lay[i], cost |-> cs[i], children |-> ch[i], op |-> op[i]]],
   root_eclasses |-> r]

\* The e-graphs explored.
InitEGraph(shapes) ==
  \E sh \in shapes :
    \E cs \in [DOMAIN sh.lay -> 0..sh.max_cost], ch \in [DOMAIN sh.lay -> sh.lists],
       op \in [DOMAIN sh.lay -> sh.ops] :
      egraph = MkEGraph(sh.lay, cs, ch, op, sh.roots)

\* The state of an extractor that is not running.
Idle == [pc |-> "idle"]

(***************************************************************************)
(* ExtractionResult (src/src/extract/mod.rs).                              *)
(***************************************************************************)
\* ExtractionResult::choose
choose(choices, class_id, node_id) == Put(choices, class_id, node_id)

\* ExtractionResult::node_sum_cost
node_sum_cost_missing_as_zero(g, node, costs) ==
  CostAdd(node.cost,
          SumSeq([i \in DOMAIN node.children |->
                    IF node.children[i] \in DOMAIN costs
                    THEN costs[node.children[i]] ELSE 0]))

node_sum_cost(g, node, costs) ==
  CostAdd(node.cost,
          SumSeq([i \in DOMAIN node.children |-> CostOf(costs, node.children[i])]))

\* The child classes of the node chosen for class c.
ChosenChildren(g, choices, c) == Range(g.nodes[choices[c]].children)

\* The classes reached from the classes S through chosen nodes (S included).
RECURSIVE Closure(_, _, _)
Closure(g, choices, S) ==
  LET T == S \cup UNION {ChosenChildren(g, choices, c) : c \in S \cap DOMAIN choices}
  IN IF T = S THEN S ELSE Closure(g, choices, T)

\* The choice graph (class -> child classes of its chosen node) has no cycle.
Acyclic(g, choices) ==
  \A c \in DOMAIN choices : c \notin Closure(g, choices, ChosenChildren(g, choices, c))

\* Every chosen node's child classes are chosen.
ChildrenClosed(g, choices) ==
  \A c \in DOMAIN choices : ChosenChildren(g, choices, c) \subseteq DOMAIN choices

\* Every chosen node is a member of the class it is chosen for.
Consistent(g, choices) ==
  \A c \in DOMAIN choices : nid_to_cid(g, choices[c]) = c

\* ExtractionResult::tree_cost_rec: every reference to a class is costed.
\* (Defined on acyclic, children-closed choices; the source recurses forever
\* on a cycle.)
\* The loop `for root in roots` with its accumulator cost: cost += inner,
\* inner = node.cost + tree_cost_rec(children).
RECURSIVE tree_cost_roots(_, _, _, _)
tree_cost_roots(g, choices, cs, cost) ==
  IF cs = <<>> THEN cost
  ELSE LET node == g.nodes[choices[Head(cs)]]
           inner == CostAdd(node.cost,
                            tree_cost_roots(g, choices, node.children, 0))
       IN tree_cost_roots(g, choices, Tail(cs), CostAdd(cost, inner))

tree_cost_rec(g, choices, cs) == tree_cost_roots(g, choices, cs, 0)

\* ExtractionResult::tree_cost
tree_cost(g, choices, roots) == tree_cost_rec(g, choices, roots)

\* an insert that adds an entry for a class that is already present
index_insert_append(costs, cid, cost) == Append(costs, <<cid, cost>>)

\* IndexMap::insert on the costs of dag_cost, a sequence of <<class, cost>>
\* in insertion order: a class already present keeps its place.
index_insert(costs, cid, cost) ==
  IF \E i \in 1..Len(costs) : costs[i][1] = cid
  THEN [i \in 1..Len(costs) |-> IF costs[i][1] = cid THEN <<cid, cost>> ELSE costs[i]]
  ELSE Append(costs, <<cid, cost>>)

\* costs.values().sum()
sum_values(costs) == sum_costs([i \in 1..Len(costs) |-> costs[i][2]])

\* ExtractionResult::dag_cost: the todo stack and the costs map; a class
\* already in costs is not expanded again.
RECURSIVE dag_cost_loop(_, _, _, _)
dag_cost_loop(g, choices, todo, costs) ==
  IF todo = <<>> THEN sum_values(costs)
  ELSE LET cid == todo[Len(todo)]
           rest == SubSeq(todo, 1, Len(todo) - 1)
           node == g.nodes[choices[cid]]
       IN IF \E i \in 1..Len(costs) : costs[i][1] = cid
          THEN dag_cost_loop(g, choices, rest, index_insert(costs, cid, node.cost))
          ELSE dag_cost_loop(g, choices, rest \o node.children,
                             index_insert(costs, cid, node.cost))

\* dag_cost as the sum over every entry of the result, reachable from the
\* roots or not
dag_cost_all_entries(g, choices, roots) ==
  SumOver([cid \in DOMAIN choices |-> g.nodes[choices[cid]].cost], DOMAIN choices)

dag_cost(g, choices, roots) == dag_cost_loop(g, choices, roots, <<>>)

\* The classes that have a derivation: the least set D such that a class
\* is in D when one of its nodes has all its child classes in D.
RECURSIVE DerivableFrom(_, _)
DerivableFrom(g, D) ==
  LET E == D \cup {g.nodes[n].eclass : n \in
                     {m \in DOMAIN g.nodes : Range(g.nodes[m].children) \subseteq D}}
  IN IF E = D THEN D ELSE DerivableFrom(g, E)

Derivable(g) == DerivableFrom(g, {})

\* Every choice of at most one member per class.
ChoiceMaps(g) ==
  LET cids == Range(classes(g))
      picks == {f \in [cids -> 0..Len(g.nodes)] :
                  \A c \in cids : f[c] = 0 \/ g.nodes[f[c]].eclass = c}
  IN {[c \in {d \in cids : f[d] # 0} |-> f[c]] : f \in picks}

\* The acyclic, children-closed choices that choose class c.
ValidChoices(g, c) ==
  {ch \in ChoiceMaps(g) :
     c \in DOMAIN ch /\ ChildrenClosed(g, ch) /\ Acyclic(g, ch)}

\* The minimum tree cost over all cycle-free trees rooted at class c.
MinTreeCost(g, c) ==
  LET costsOf == {tree_cost(g, ch, <<c>>) : ch \in ValidChoices(g, c)}
  IN CHOOSE m \in costsOf : \A k \in costsOf : m <= k

(***************************************************************************)
(* BottomUpExtractor (src/src/extract/bottom_up.rs).  bu.pc is "loop"      *)
(* while the sweeps run and "done" once extract has returned bu.result.    *)
(***************************************************************************)
BUVisit_first_choice_only(g, st, n) ==
  LET node == g.nodes[n]
      cost == node_sum_cost(g, node, st.costs)
  IN IF cost < INFINITY /\ node.eclass \notin DOMAIN st.costs
     THEN [st EXCEPT !.result = choose(st.result, node.eclass, n),
                     !.costs = Put(st.costs, node.eclass, cost),
                     !.did_something = TRUE]
     ELSE st

\* Lines 13-18: one node of the sweep.
BUVisit(g, st, n) ==
  LET node == g.nodes[n]
      cost == node_sum_cost(g, node, st.costs)
  IN IF cost < CostOf(st.costs, node.eclass)
     THEN [st EXCEPT !.result = choose(st.result, node.eclass, n),
                     !.costs = Put(st.costs, node.eclass, cost),
                     !.did_something = TRUE]
     ELSE st

RECURSIVE BUFold(_, _, _)
BUFold(g, st, order) ==
  IF order = <<>> THEN st
  ELSE BUFold(g, BUVisit(g, st, Head(order)), Tail(order))

BUInit ==
  [pc |-> "loop", result |-> EmptyMap, costs |-> EmptyMap, did_something |-> FALSE]

\* The variables BottomUpExtractor does not touch.
notBU == <<egraph, fgd, td, wl, ilp, driver, topk, beam, dc, trie>>

BottomUpSweep_single_pass ==
  /\ bu.pc = "loop"
  /\ bu' = [BUFold(egraph, bu, SweepOrder(egraph)) EXCEPT !.pc = "done"]
  /\ UNCHANGED notBU

\* Lines 10-27: one pass of `loop`: the sweep over all nodes, then the test
\* of did_something.
BottomUpSweep ==
  /\ bu.pc = "loop"
  /\ LET st == BUFold(egraph, bu, SweepOrder(egraph))
     IN bu' = IF st.did_something
              THEN [st EXCEPT !.did_something = FALSE]
              ELSE [st EXCEPT !.pc = "done"]
  /\ UNCHANGED notBU

InitBU ==
  /\ trie = Idle
  /\ InitEGraph(Shapes)
  /\ bu = BUInit
  /\ fgd = Idle
  /\ td = Idle
  /\ wl = Idle
  /\ ilp = Idle
  /\ driver = Idle
  /\ topk = Idle
  /\ beam = Idle
  /\ dc = Idle

NextBU == BottomUpSweep

SpecBU == InitBU /\ [][NextBU]_vars

(***************************************************************************)
(* Claims about BottomUpExtractor.                                         *)
(***************************************************************************)
\* C1: on every e-graph (zero costs and e-graph cycles included) the choice
\* graph of the result BottomUpExtractor returns is acyclic.
C1_BottomUpAcyclic ==
  bu.pc = "done" => Acyclic(egraph, bu.result)

\* A returned result on an e-graph in which a zero-cost node of a chosen
\* class points, through a chosen class, back to its own class.
C1_Witness ==
  /\ bu.pc = "done"
  /\ \E n \in DOMAIN egraph.nodes :
       /\ egraph.nodes[n].cost = 0
       /\ egraph.nodes[n].eclass \in DOMAIN bu.result
       /\ bu.result[egraph.nodes[n].eclass] # n
       /\ Range(egraph.nodes[n].children) \subseteq DOMAIN bu.result
       /\ Range(egraph.nodes[n].children) # {}
       /\ egraph.nodes[n].eclass \in
            Closure(egraph, bu.result, Range(egraph.nodes[n].children))

AllRootsDerivable == Range(egraph.root_eclasses) \subseteq Derivable(egraph)

\* C2: when every root class has a derivation, the result BottomUpExtractor
\* returns has an entry for every root, and every child class of every
\* chosen node has an entry.
C2_BottomUpCoverage ==
  (bu.pc = "done" /\ AllRootsDerivable) =>
    /\ Range(egraph.root_eclasses) \subseteq DOMAIN bu.result
    /\ ChildrenClosed(egraph, bu.result)

\* A returned result whose roots are derivable, with a root whose chosen
\* node has children, on an e-graph where some class has no derivation.
C2_Witness ==
  /\ bu.pc = "done"
  /\ AllRootsDerivable
  /\ Derivable(egraph) # Range(classes(egraph))
  /\ \E r \in Range(egraph.root_eclasses) :
       r \in DOMAIN bu.result /\ ChosenChildren(egraph, bu.result, r) # {}

\* C4: for every class that has a derivation (the classes reachable from
\* derivable roots among them), the class has an entry and tree_cost of the
\* returned result at that class is the minimum tree cost over all acyclic,
\* children-closed choices rooted at it.
C4_BottomUpTreeOptimal ==
  bu.pc = "done" =>
    \A c \in Derivable(egraph) :
      /\ c \in DOMAIN bu.result
      /\ tree_cost(egraph, bu.result, <<c>>) = MinTreeCost(egraph, c)

\* A returned result in which a root's chosen node has children although
\* the class also holds a leaf, the leaf costing more than the whole tree.
C4_Witness ==
  /\ bu.pc = "done"
  /\ \E r \in Range(egraph.root_eclasses) \cap DOMAIN bu.result :
       /\ ChosenChildren(egraph, bu.result, r) # {}
       /\ \E m \in DOMAIN egraph.nodes :
            /\ egraph.nodes[m].eclass = r
            /\ egraph.nodes[m].children = <<>>
            /\ egraph.nodes[m].cost > tree_cost(egraph, bu.result, <<r>>)

(***************************************************************************)
(* FasterGreedyDagExtractor (src/src/extract/faster_greedy_dag.rs).        *)
(* fgd.costs maps a class to its CostSet [costs, total, choice]; fgd.pq    *)
(* is the MostlyUniquePriorityQueue [set, queue], its heap a list of       *)
(* <<cost, NodeId>> popped at its least element.                           *)
(***************************************************************************)
RECURSIVE SortedSeq(_)
SortedSeq(S) ==
  IF S = {} THEN <<>>
  ELSE LET m == CHOOSE x \in S : \A y \in S : x <= y
       IN <<m>> \o SortedSeq(S \ {m})

\* Lines 39-45: the child classes, sorted and without duplicates.
childrens_classes(g, node_id) == SortedSeq(Range(g.nodes[node_id].children))

\* Lines 61-64: max_by_key keeps the last of the greatest elements.
id_of_biggest(cc, costs) ==
  LET size(i) == Cardinality(DOMAIN costs[cc[i]].costs)
      idx == CHOOSE i \in DOMAIN cc :
               \A j \in DOMAIN cc : size(j) < size(i) \/ (size(j) = size(i) /\ j <= i)
  IN cc[idx]

\* HashMap::insert of every entry of m2 into m1.
InsertAll(m1, m2) ==
  [k \in (DOMAIN m1) \cup (DOMAIN m2) |-> IF k \in DOMAIN m2 THEN m2[k] ELSE m1[k]]

\* Lines 66-75: the other children's maps inserted in order into result.
RECURSIVE insert_others(_, _, _, _)
insert_others(result, cc, biggest, costs) ==
  IF cc = <<>> THEN result
  ELSE insert_others(IF Head(cc) = biggest THEN result
                     ELSE InsertAll(result, costs[Head(cc)].costs),
                     Tail(cc), biggest, costs)

\* Lines 80-84.
result_cost_unguarded(contains, result) == SumOver(result, DOMAIN result)

result_cost(contains, result) ==
  IF contains THEN INFINITY ELSE SumOver(result, DOMAIN result)

\* struct CostSet
CostSet(costs, total, choice) == [costs |-> costs, total |-> total, choice |-> choice]

\* FasterGreedyDagExtractor::calculate_cost_set
calculate_cost_set(g, node_id, costs, best_cost) ==
  LET node == g.nodes[node_id]
      cid == nid_to_cid(g, node_id)
      cc == childrens_classes(g, node_id)
  IN IF node.children = <<>>
     THEN CostSet(Put(EmptyMap, cid, node.cost), node.cost, node_id)
     ELSE IF \/ cid \in Range(cc)
             \/ (Len(cc) = 1 /\ CostAdd(node.cost, costs[cc[1]].total) > best_cost)
     THEN CostSet(EmptyMap, INFINITY, node_id)
     ELSE LET biggest == id_of_biggest(cc, costs)
              merged == insert_others(costs[biggest].costs, cc, biggest, costs)
              contains == cid \in DOMAIN merged
              result == Put(merged, cid, node.cost)
          IN CostSet(result, result_cost(contains, result), node_id)

\* MostlyUniquePriorityQueue::default
pq_default == [set |-> EmptyMap, queue |-> <<>>]

\* MostlyUniquePriorityQueue::insert
pq_insert(q, node_id, cost) ==
  IF node_id \in DOMAIN q.set /\ q.set[node_id] <= cost
  THEN q
  ELSE [set |-> Put(q.set, node_id, cost),
        queue |-> Append(q.queue, <<cost, node_id>>)]

\* The position of the least <<cost, NodeId>> of the heap.
pq_min(queue) ==
  CHOOSE i \in DOMAIN queue :
    \A j \in DOMAIN queue :
      \/ queue[i][1] < queue[j][1]
      \/ (queue[i][1] = queue[j][1] /\ queue[i][2] < queue[j][2])
      \/ (queue[i] = queue[j] /\ i <= j)

RemoveAt(s, i) == SubSeq(s, 1, i - 1) \o SubSeq(s, i + 1, Len(s))

Without(m, k) == [x \in (DOMAIN m) \ {k} |-> m[x]]

\* MostlyUniquePriorityQueue::pop: the queue after the pop.
pq_pop(q) ==
  LET i == pq_min(q.queue)
  IN [set |-> Without(q.set, q.queue[i][2]), queue |-> RemoveAt(q.queue, i)]

\* Lines 104-110: parents[c], one entry per child reference to class c,
\* in sweep order.
RECURSIVE parents_of(_, _, _)
parents_of(g, c, order) ==
  IF order = <<>> THEN <<>>
  ELSE LET n == Head(order)
           refs == {i \in DOMAIN g.nodes[n].children : g.nodes[n].children[i] = c}
       IN [k \in 1..Cardinality(refs) |-> n] \o parents_of(g, c, Tail(order))

parents(g) == [c \in Range(classes(g)) |-> parents_of(g, c, SweepOrder(g))]

RECURSIVE insert_each(_, _, _)
insert_each(g, q, ns) ==
  IF ns = <<>> THEN q
  ELSE insert_each(g, pq_insert(q, Head(ns), g.nodes[Head(ns)].cost), Tail(ns))

\* Lines 96-122: the state on entry to the while loop: the leaves pending.
FGDInit(g) ==
  [pc |-> "loop",
   pq |-> insert_each(g, pq_default, SelectSeq(SweepOrder(g), LAMBDA n : is_leaf(g, n))),
   costs |-> EmptyMap,
   result |-> EmptyMap]

\* The variables FasterGreedyDagExtractor does not touch.
notFGD == <<egraph, bu, td, wl, ilp, driver, topk, beam, dc, trie>>

\* Lines 124-142: one iteration of `while let Some(node_id) = pop()` on the
\* locals st = [pq, costs, ...].
FGDStep(g, st) ==
  LET node_id == st.pq.queue[pq_min(st.pq.queue)][2]
      q == pq_pop(st.pq)
      class_id == nid_to_cid(g, node_id)
      prev_cost == IF class_id \in DOMAIN st.costs
                   THEN st.costs[class_id].total ELSE INFINITY
      cost_set == calculate_cost_set(g, node_id, st.costs, prev_cost)
  IN IF cost_set.total < prev_cost
     THEN LET costs == Put(st.costs, class_id, cost_set)
              ready == SelectSeq(parents(g)[class_id],
                         LAMBDA e : Range(g.nodes[e].children) \subseteq DOMAIN costs)
          IN [st EXCEPT !.costs = costs, !.pq = insert_each(g, q, ready)]
     ELSE [st EXCEPT !.pq = q]

\* Lines 144-148: result.choose(cid, cost_set.choice) for every cost set.
FGDResult(st) == [cid \in DOMAIN st.costs |-> st.costs[cid].choice]

FGDPop ==
  /\ fgd.pc = "loop"
  /\ fgd.pq.queue # <<>>
  /\ fgd' = FGDStep(egraph, fgd)
  /\ UNCHANGED notFGD

\* Lines 144-148: the queue is empty; the choices are read off the cost sets.
FGDReturn ==
  /\ fgd.pc = "loop"
  /\ fgd.pq.queue = <<>>
  /\ fgd' = [fgd EXCEPT !.pc = "done", !.result = FGDResult(fgd)]
  /\ UNCHANGED notFGD

\* FasterGreedyDagExtractor::extract run to its end on g: the result.
RECURSIVE FGDRun(_, _)
FGDRun(g, st) ==
  IF st.pq.queue = <<>> THEN FGDResult(st) ELSE FGDRun(g, FGDStep(g, st))

InitFGD ==
  /\ trie = Idle
  /\ InitEGraph(Shapes \cup WideShapes)
  /\ fgd = FGDInit(egraph)
  /\ bu = Idle
  /\ td = Idle
  /\ wl = Idle
  /\ ilp = Idle
  /\ driver = Idle
  /\ topk = Idle
  /\ beam = Idle
  /\ dc = Idle

NextFGD == FGDPop \/ FGDReturn

SpecFGD == InitFGD /\ [][NextFGD]_vars

(***************************************************************************)
(* Claims about FasterGreedyDagExtractor.                                  *)
(***************************************************************************)
\* C7: the final choices of FasterGreedyDagExtractor form an acyclic choice
\* graph, also when an installed cost set was built from child cost sets
\* that were replaced later.
C7_FasterGreedyDagAcyclic ==
  fgd.pc = "done" => Acyclic(egraph, fgd.result)

\* A class whose installed cost set holds, for some other class, a cost that
\* is not the cost of that class's final choice.
StaleCostSet(c) ==
  \E k \in DOMAIN fgd.costs[c].costs :
    k \in DOMAIN fgd.costs /\
    fgd.costs[c].costs[k] # egraph.nodes[fgd.costs[k].choice].cost

\* A returned result with a class whose cost set is stale, on an e-graph in
\* which a node of a chosen class reaches its own class through the choices.
C7_Witness ==
  /\ fgd.pc = "done"
  /\ \E c \in DOMAIN fgd.costs : StaleCostSet(c)
  /\ \E n \in DOMAIN egraph.nodes :
       /\ egraph.nodes[n].eclass \in DOMAIN fgd.result
       /\ Range(egraph.nodes[n].children) # {}
       /\ Range(egraph.nodes[n].children) \subseteq DOMAIN fgd.result
       /\ egraph.nodes[n].eclass \notin Range(egraph.nodes[n].children)
       /\ egraph.nodes[n].eclass \in
            Closure(egraph, fgd.result, Range(egraph.nodes[n].children))

\* C8: at termination the total recorded in the cost set of every class with
\* an entry equals dag_cost of the returned result rooted at that class.
C8_FasterGreedyDagTotalIsDagCost ==
  fgd.pc = "done" =>
    \A c \in DOMAIN fgd.costs :
      fgd.costs[c].total = dag_cost(egraph, fgd.result, <<c>>)

(***************************************************************************)
(* The greedy DAG extractors built on a TermDag:                           *)
(* GlobalGreedyDagExtractor (src/src/extract/global_greedy_dag.rs) and     *)
(* GreedyDagExtractor (src/src/extract/fast_greedy_dag.rs).  A TermDag is  *)
(* [nodes, info]; hash_cons maps a Term to the index at which it was       *)
(* pushed, so a lookup is a search of nodes.  TermIds count from 1 (from 0 *)
(* in the source) and 0 stands for None.                                   *)
(***************************************************************************)
\* struct Term
Term(op, children) == [op |-> op, children |-> children]

\* TermDag::default
termdag_default == [nodes |-> <<>>, info |-> <<>>]

\* self.hash_cons.get(&term)
hash_cons_get(dag, term) ==
  IF \E i \in DOMAIN dag.nodes : dag.nodes[i] = term
  THEN CHOOSE i \in DOMAIN dag.nodes : dag.nodes[i] = term
  ELSE 0

\* self.nodes.push(term); self.info.push(info); self.hash_cons.insert(term, next_id)
termdag_push(dag, term, info) ==
  [nodes |-> Append(dag.nodes, term), info |-> Append(dag.info, info)]

\* TermDag::total_cost
total_cost(dag, id) == dag.info[id].total_cost

\* global_greedy_dag.rs TermDag::get_cost: the cost of the classes of term
\* id that are not in shared, and shared with those classes added.
RECURSIVE global_get_cost(_, _, _), global_get_cost_children(_, _, _)
global_get_cost(dag, shared, id) ==
  LET eclass == dag.info[id].eclass
  IN IF eclass \in shared
     THEN [cost |-> 0, shared |-> shared]
     ELSE LET r == global_get_cost_children(dag, shared, dag.nodes[id].children)
          IN [cost |-> CostAdd(dag.info[id].node_cost, r.cost),
              shared |-> r.shared \cup {eclass}]

global_get_cost_children(dag, shared, ids) ==
  IF ids = <<>> THEN [cost |-> 0, shared |-> shared]
  ELSE LET a == global_get_cost(dag, shared, Head(ids))
           b == global_get_cost_children(dag, a.shared, Tail(ids))
       IN [cost |-> CostAdd(a.cost, b.cost), shared |-> b.shared]

\* Lines 94-100 of global_greedy_dag.rs: the loop over the children, left
\* with none set as soon as the cost exceeds the target.
RECURSIVE global_make_loop(_, _, _, _, _)
global_make_loop(dag, cost, reachable, children, target) ==
  IF children = <<>> THEN [none |-> FALSE, cost |-> cost, reachable |-> reachable]
  ELSE IF cost > target THEN [none |-> TRUE, cost |-> cost, reachable |-> reachable]
  ELSE LET r == global_get_cost(dag, reachable, Head(children))
       IN global_make_loop(dag, CostAdd(cost, r.cost), r.shared, Tail(children), target)

\* max_by_key over the child positions: the last of the biggest children.
biggest_child(dag, children) ==
  CHOOSE i \in DOMAIN children :
    \A j \in DOMAIN children :
      \/ dag.info[children[j]].size < dag.info[children[i]].size
      \/ (dag.info[children[j]].size = dag.info[children[i]].size /\ j <= i)

\* global_greedy_dag.rs TermDag::make: the TermDag afterwards and the
\* TermId returned (0 for None).
global_make(dag, node_id, node, children, target) ==
  LET term == Term(node.op, children)
      hit == hash_cons_get(dag, term)
      next_id == Len(dag.nodes) + 1
  IN IF hit # 0 THEN [dag |-> dag, id |-> hit]
     ELSE IF children = <<>>
     THEN [dag |-> termdag_push(dag, term,
                     [node |-> node_id, eclass |-> node.eclass, node_cost |-> node.cost,
                      total_cost |-> node.cost, reachable |-> {node.eclass}, size |-> 1]),
           id |-> next_id]
     ELSE IF \E i \in DOMAIN children : node.eclass \in dag.info[children[i]].reachable
     THEN [dag |-> dag, id |-> 0]
     ELSE LET big == children[biggest_child(dag, children)]
              r == global_make_loop(dag, CostAdd(node.cost, total_cost(dag, big)),
                                    dag.info[big].reachable, children, target)
          IN IF r.none \/ r.cost > target
             THEN [dag |-> dag, id |-> 0]
             ELSE [dag |-> termdag_push(dag, term,
                             [node |-> node_id, eclass |-> node.eclass,
                              node_cost |-> node.cost, total_cost |-> r.cost,
                              reachable |-> r.reachable \cup {node.eclass},
                              size |-> 1 + SumSeq([i \in DOMAIN children |->
                                                     dag.info[children[i]].size])]),
                   id |-> next_id]

\* fast_greedy_dag.rs TermDag::get_cost
RECURSIVE fast_get_cost(_, _, _)
fast_get_cost(dag, shared, id) ==
  IF id \in shared THEN 0
  ELSE CostAdd(dag.info[id].node_cost,
               SumSeq([i \in DOMAIN dag.nodes[id].children |->
                         fast_get_cost(dag, shared, dag.nodes[id].children[i])]))

\* fast_greedy_dag.rs TermDag::make
fast_make(dag, node_id, op, children, node_cost) ==
  LET term == Term(op, children)
      hit == hash_cons_get(dag, term)
      next_id == Len(dag.nodes) + 1
  IN IF hit # 0 THEN [dag |-> dag, id |-> hit]
     ELSE IF children = <<>>
     THEN [dag |-> termdag_push(dag, term,
                     [node |-> node_id, node_cost |-> node_cost,
                      total_cost |-> node_cost, reachable |-> {next_id}]),
           id |-> next_id]
     ELSE LET reachable == dag.info[children[1]].reachable
              cost == CostAdd(CostAdd(node_cost, total_cost(dag, children[1])),
                        SumSeq([i \in DOMAIN Tail(children) |->
                                  fast_get_cost(dag, reachable, Tail(children)[i])]))
          IN [dag |-> termdag_push(dag, term,
                        [node |-> node_id, node_cost |-> node_cost,
                         total_cost |-> cost, reachable |-> reachable]),
              id |-> next_id]

\* The TermIds of the best terms of a node's child classes.
best_children(node, best) == [i \in DOMAIN node.children |-> best[node.children[i]]]

\* global_greedy_dag.rs lines 169-194: the body of 'node_loop for one node.
global_visit(g, st, n) ==
  LET node == g.nodes[n]
  IN IF ~(Range(node.children) \subseteq DOMAIN st.best_in_class) THEN st
     ELSE LET old_cost == IF node.eclass \in DOMAIN st.best_in_class
                          THEN total_cost(st.termdag, st.best_in_class[node.eclass])
                          ELSE INFINITY
              r == global_make(st.termdag, n, node,
                               best_children(node, st.best_in_class), old_cost)
          IN IF r.id # 0 /\ total_cost(r.dag, r.id) < old_cost
             THEN [st EXCEPT !.termdag = r.dag,
                             !.best_in_class = Put(st.best_in_class, node.eclass, r.id),
                             !.keep_going = TRUE]
             ELSE [st EXCEPT !.termdag = r.dag]

\* fast_greedy_dag.rs lines 122-148: the body of 'node_loop for one node.
fast_visit(g, st, n) ==
  LET node == g.nodes[n]
  IN IF ~(Range(node.children) \subseteq DOMAIN st.best_in_class) THEN st
     ELSE LET r == fast_make(st.termdag, n, node.op,
                             best_children(node, st.best_in_class), node.cost)
              better == IF node.eclass \in DOMAIN st.best_in_class
                        THEN total_cost(r.dag, r.id)
                               < total_cost(r.dag, st.best_in_class[node.eclass])
                        ELSE TRUE
          IN IF better
             THEN [st EXCEPT !.termdag = r.dag,
                             !.best_in_class = Put(st.best_in_class, node.eclass, r.id),
                             !.keep_going = TRUE]
             ELSE [st EXCEPT !.termdag = r.dag]

\* for (node_id, node) in &nodes
RECURSIVE td_fold(_, _, _, _)
td_fold(visit(_, _, _), g, st, n) ==
  IF n > Len(g.nodes) THEN st
  ELSE td_fold(visit, g, visit(g, st, n), n + 1)

\* The state on entry to `while keep_going` of the extractor `which`.
TDInit(which) ==
  [pc |-> "loop", which |-> which, keep_going |-> TRUE,
   termdag |-> termdag_default, best_in_class |-> EmptyMap, result |-> EmptyMap]

\* The variables the TermDag extractors do not touch.
notTD == <<egraph, bu, fgd, wl, ilp, driver, topk, beam, dc, trie>>

\* GlobalGreedyDagExtractor::extract, one pass of `while keep_going`.
GlobalGreedySweep ==
  /\ td.pc = "loop" /\ td.which = "global" /\ td.keep_going
  /\ td' = td_fold(global_visit, egraph, [td EXCEPT !.keep_going = FALSE], 1)
  /\ UNCHANGED notTD

\* GreedyDagExtractor::extract (fast_greedy_dag.rs), one pass of
\* `while keep_going`.
FastGreedySweep ==
  /\ td.pc = "loop" /\ td.which = "fast" /\ td.keep_going
  /\ td' = td_fold(fast_visit, egraph, [td EXCEPT !.keep_going = FALSE], 1)
  /\ UNCHANGED notTD

\* Both extractors, after the loop: result.choose(class, termdag.info[term].node).
TDReturn ==
  /\ td.pc = "loop" /\ ~td.keep_going
  /\ td' = [td EXCEPT !.pc = "done",
                      !.result = [c \in DOMAIN td.best_in_class |->
                                    td.termdag.info[td.best_in_class[c]].node]]
  /\ UNCHANGED notTD

InitTD ==
  /\ trie = Idle
  /\ InitEGraph(LabelledShapes)
  /\ \E which \in {"global", "fast"} : td = TDInit(which)
  /\ bu = Idle
  /\ fgd = Idle
  /\ wl = Idle
  /\ ilp = Idle
  /\ driver = Idle
  /\ topk = Idle
  /\ beam = Idle
  /\ dc = Idle

NextTD == GlobalGreedySweep \/ FastGreedySweep \/ TDReturn

SpecTD == InitTD /\ [][NextTD]_vars

(***************************************************************************)
(* Claims about the TermDag extractors.                                    *)
(***************************************************************************)
\* C3: every entry (c, n) returned by GlobalGreedyDagExtractor and by the
\* fast greedy DAG extractor has n a member of class c, on e-graphs that
\* include nodes of different classes with the same op and the same children.
C3_TermDagConsistent ==
  td.pc = "done" => Consistent(egraph, td.result)

(***************************************************************************)
(* BottomUpAnalysisExtractor (src/src/extract/bottom_up_analysis.rs): the  *)
(* worklist bottom-up extractor.  wl.pending is the UniqueQueue [set,      *)
(* queue].  The source pops the front of the queue and de-duplicates; the  *)
(* model pops at any position, the front included, and wl.dedup tells      *)
(* whether insert consults the set.                                        *)
(***************************************************************************)
\* UniqueQueue::default
uq_default == [set |-> {}, queue |-> <<>>]

\* UniqueQueue::insert; without de-duplication a plain push_back.
uq_insert(q, t, dedup) ==
  IF dedup /\ t \in q.set THEN q
  ELSE [set |-> q.set \cup {t}, queue |-> Append(q.queue, t)]

RECURSIVE uq_extend_first_only(_, _, _)
uq_extend_first_only(q, ts, dedup) ==
  IF ts = <<>> THEN q ELSE uq_insert(q, Head(ts), dedup)

\* UniqueQueue::extend
RECURSIVE uq_extend(_, _, _)
uq_extend(q, ts, dedup) ==
  IF ts = <<>> THEN q
  ELSE uq_extend(uq_insert(q, Head(ts), dedup), Tail(ts), dedup)

\* UniqueQueue::pop of the element at position i (the source pops i = 1):
\* the queue afterwards.
uq_pop(q, i) ==
  [set |-> q.set \ {q.queue[i]}, queue |-> RemoveAt(q.queue, i)]

\* Lines 8-35: the state on entry to the while loop.
WLInit(g, dedup) ==
  [pc |-> "loop", dedup |-> dedup,
   pending |-> uq_extend(uq_default,
                         SelectSeq(SweepOrder(g), LAMBDA n : is_leaf(g, n)), dedup),
   result |-> EmptyMap, costs |-> EmptyMap]

\* The variables BottomUpAnalysisExtractor does not touch.
notWL == <<egraph, bu, fgd, td, ilp, driver, topk, beam, dc, trie>>

\* Lines 37-55: one iteration of `while let Some(node_id) = pop()`.
WLPop ==
  /\ wl.pc = "loop"
  /\ \E i \in DOMAIN wl.pending.queue :
       LET node_id == wl.pending.queue[i]
           q == uq_pop(wl.pending, i)
           class_id == nid_to_cid(egraph, node_id)
           node == egraph.nodes[node_id]
           prev_cost == CostOf(wl.costs, class_id)
           cost == node_sum_cost(egraph, node, wl.costs)
       IN IF Range(node.children) \subseteq DOMAIN wl.result
          THEN IF cost < prev_cost
               THEN wl' = [wl EXCEPT
                             !.result = choose(wl.result, class_id, node_id),
                             !.costs = Put(wl.costs, class_id, cost),
                             !.pending = uq_extend(q, parents(egraph)[class_id], wl.dedup)]
               ELSE wl' = [wl EXCEPT !.pending = q]
          ELSE wl' = [wl EXCEPT !.pending = uq_insert(q, node_id, wl.dedup)]
  /\ UNCHANGED notWL

\* Lines 37, 57: the queue is empty and result is returned.
WLReturn ==
  /\ wl.pc = "loop"
  /\ wl.pending.queue = <<>>
  /\ wl' = [wl EXCEPT !.pc = "done"]
  /\ UNCHANGED notWL

InitWL ==
  /\ trie = Idle
  /\ InitEGraph(Shapes)
  /\ \E dedup \in BOOLEAN : wl = WLInit(egraph, dedup)
  /\ bu = Idle
  /\ fgd = Idle
  /\ td = Idle
  /\ ilp = Idle
  /\ driver = Idle
  /\ topk = Idle
  /\ beam = Idle
  /\ dc = Idle

NextWL == WLPop \/ WLReturn

SpecWL == InitWL /\ [][NextWL]_vars

\* BottomUpExtractor::extract run to its end on g: the final locals.
RECURSIVE BURun(_, _)
BURun(g, st) ==
  LET s2 == BUFold(g, st, SweepOrder(g))
  IN IF s2.did_something THEN BURun(g, [s2 EXCEPT !.did_something = FALSE]) ELSE s2

(***************************************************************************)
(* Claims about BottomUpAnalysisExtractor.                                 *)
(***************************************************************************)
\* C6: for every order of the pops, with and without de-duplication, the
\* worklist extractor ends with the per-class costs of BottomUpExtractor on
\* the same e-graph, and with the same tree_cost at the roots.
C6_WorklistSameCosts ==
  wl.pc = "done" =>
    LET sweep == BURun(egraph, BUInit)
    IN /\ wl.costs = sweep.costs
       /\ AllRootsDerivable =>
            tree_cost(egraph, wl.result, egraph.root_eclasses)
              = tree_cost(egraph, sweep.result, egraph.root_eclasses)

\* A finished run without de-duplication, every root derivable, in which a
\* class chose a node with children over another of its nodes whose cost
\* sum is finite but greater.
C6_Witness ==
  /\ wl.pc = "done"
  /\ ~wl.dedup
  /\ AllRootsDerivable
  /\ \E c \in DOMAIN wl.result :
       /\ ~is_leaf(egraph, wl.result[c])
       /\ \E n \in DOMAIN egraph.nodes :
            /\ n # wl.result[c]
            /\ nid_to_cid(egraph, n) = c
            /\ node_sum_cost(egraph, egraph.nodes[n], wl.costs) < INFINITY
            /\ node_sum_cost(egraph, egraph.nodes[n], wl.costs) > wl.costs[c]

(***************************************************************************)
(* GreedyDagExtractor (greedy_dag.rs): the warm start of the faster ILP.   *)
(* A NodeSet is the set of the nodes of a candidate DAG; its cost is the   *)
(* sum of the costs of its nodes.                                          *)
(***************************************************************************)
\* NodeSet::cost
NodeSet_cost(g, set) == SumOver([n \in set |-> g.nodes[n].cost], set)

\* compute_cost: the node and the union of the sets of its children, or
\* None when a child has no set yet.
compute_cost(g, node, costs) ==
  IF Range(g.nodes[node].children) \subseteq DOMAIN costs
  THEN [some |-> TRUE,
        set |-> {node} \cup UNION {costs[c] : c \in Range(g.nodes[node].children)}]
  ELSE [some |-> FALSE, set |-> {}]

\* The body of the inner loop of extract, for one node.
GDVisit(g, st, node) ==
  LET class_id == nid_to_cid(g, node)
      new_cost == compute_cost(g, node, st.costs)
  IN IF /\ new_cost.some
        /\ \/ class_id \notin DOMAIN st.costs
           \/ NodeSet_cost(g, new_cost.set) < NodeSet_cost(g, st.costs[class_id])
     THEN [result |-> choose(st.result, class_id, node),
           costs |-> Put(st.costs, class_id, new_cost.set),
           did_something |-> TRUE]
     ELSE st

RECURSIVE GDFold(_, _, _)
GDFold(g, st, order) ==
  IF order = <<>> THEN st ELSE GDFold(g, GDVisit(g, st, Head(order)), Tail(order))

\* GreedyDagExtractor::extract: sweeps until a sweep changes nothing.
RECURSIVE GDLoop(_, _)
GDLoop(g, st) ==
  LET s2 == GDFold(g, st, SweepOrder(g))
  IN IF s2.did_something THEN GDLoop(g, [s2 EXCEPT !.did_something = FALSE])
     ELSE s2.result

GreedyDagExtract(g) ==
  GDLoop(g, [result |-> EmptyMap, costs |-> EmptyMap, did_something |-> FALSE])

(***************************************************************************)
(* The ILP extractors (faster_ilp_cbc.rs, ilp_cbc.rs).                     *)
(*                                                                         *)
(* CbcExtractor is the code of FasterCbcExtractor with its switches fixed  *)
(* as constants: it always takes the intersection of the children of a     *)
(* class, has no level constraints, no test for a proven-infeasible model  *)
(* and no early return for a root without members; its warm start is       *)
(* FasterGreedyDagExtractor.  One model serves both: `extractor` selects   *)
(* the differences.                                                        *)
(***************************************************************************)
\* Config::default()
ConfigDefault ==
  [pull_up_costs |-> TRUE,
   remove_self_loops |-> FALSE,
   remove_high_cost_nodes |-> FALSE,
   remove_more_expensive_subsumed_nodes |-> FALSE,
   remove_more_expensive_nodes |-> FALSE,
   remove_unreachable_classes |-> FALSE,
   pull_up_single_parent |-> FALSE,
   take_intersection_of_children_in_class |-> FALSE,
   move_min_cost_of_members_to_class |-> TRUE,
   initialise_with_approx |-> TRUE,
   initialise_with_previous_solution |-> TRUE,
   prior_block_cycles |-> TRUE]

\* The constants of ilp_cbc.rs, as a Config.
ConfigCbc ==
  [pull_up_costs |-> TRUE,
   remove_self_loops |-> TRUE,
   remove_high_cost_nodes |-> TRUE,
   remove_more_expensive_subsumed_nodes |-> TRUE,
   remove_more_expensive_nodes |-> TRUE,
   remove_unreachable_classes |-> TRUE,
   pull_up_single_parent |-> TRUE,
   take_intersection_of_children_in_class |-> TRUE,
   move_min_cost_of_members_to_class |-> FALSE,
   initialise_with_approx |-> FALSE,
   initialise_with_previous_solution |-> FALSE,
   prior_block_cycles |-> FALSE]

\* A Config with every switch off.
ConfigNone == [f \in DOMAIN ConfigDefault |-> FALSE]

\* The Configs explored for FasterCbcExtractor's extract: the default, no
\* switch at all, every preprocessing step with and without the level
\* constraints, and each removal step alone.
Configs ==
  { ConfigDefault,
    ConfigNone,
    ConfigCbc,
    [ConfigCbc EXCEPT !.prior_block_cycles = TRUE],
    [ConfigNone EXCEPT !.remove_more_expensive_nodes = TRUE],
    [ConfigNone EXCEPT !.remove_more_expensive_nodes = TRUE,
                       !.prior_block_cycles = TRUE],
    [ConfigNone EXCEPT !.prior_block_cycles = TRUE] }

\* collect::<IndexSet<_>>(): the distinct elements in order of first appearance
RECURSIVE IndexSetFrom(_, _)
IndexSetFrom(s, acc) ==
  IF s = <<>> THEN acc
  ELSE IndexSetFrom(Tail(s), IF Head(s) \in Range(acc) THEN acc ELSE Append(acc, Head(s)))

IndexSetOf(s) == IndexSetFrom(s, <<>>)

\* The ClassILP of a class: members, costs and children's classes of its
\* nodes, index by index.  (The solver columns `active` and `variables` are
\* the class and the index.)
ClassILP(g, c) ==
  LET members == ClassNodes(g, c)
  IN [members |-> members,
      costs |-> [i \in DOMAIN members |-> g.nodes[members[i]].cost],
      childrens_classes |->
        [i \in DOMAIN members |-> IndexSetOf(g.nodes[members[i]].children)]]

\* `vars` of extract: the ClassILPs in the order of egraph.classes().
\* `panic` records that building or preprocessing has panicked.
ilp_vars(g) ==
  [keys |-> classes(g),
   at |-> [c \in Range(classes(g)) |-> ClassILP(g, c)],
   panic |-> FALSE]

\* The entries of s at the indices in keep, in order.
RECURSIVE SubSeqBy(_, _, _)
SubSeqBy(s, keep, i) ==
  IF i > Len(s) THEN <<>>
  ELSE (IF i \in keep THEN <<s[i]>> ELSE <<>>) \o SubSeqBy(s, keep, i + 1)

\* ClassILP::remove of every index outside keep
ClassILP_retain(class, keep) ==
  [members |-> SubSeqBy(class.members, keep, 1),
   costs |-> SubSeqBy(class.costs, keep, 1),
   childrens_classes |-> SubSeqBy(class.childrens_classes, keep, 1)]

\* for class in vars.values_mut() { class := f(class_id, class) }
ForEachClass(v, f(_, _)) == [v EXCEPT !.at = [c \in DOMAIN v.at |-> f(c, v.at[c])]]

\* remove_with_loops: drops the nodes with a child in their own class or in
\* the sole root class.
remove_with_loops(v, roots, config) ==
  IF v.panic \/ ~config.remove_self_loops THEN v
  ELSE ForEachClass(v, LAMBDA class_id, class :
         ClassILP_retain(class,
           {i \in DOMAIN class.members :
              ~\E cid \in Range(class.childrens_classes[i]) :
                 cid = class_id \/ (Len(roots) = 1 /\ roots[1] = cid)}))

\* remove_high_cost: drops the nodes that alone cost more than the warm start.
remove_high_cost(v, initial_result_cost, config) ==
  IF v.panic \/ ~config.remove_high_cost_nodes THEN v
  ELSE ForEachClass(v, LAMBDA class_id, class :
         ClassILP_retain(class,
           {i \in DOMAIN class.members : ~(class.costs[i] > initial_result_cost)}))

\* ExtractionResult::dag_cost indexes choices[cid] for every class it
\* reaches: it panics when one of them has no choice.
dag_cost_panics(g, choices, roots) ==
  ~(Closure(g, choices, Range(roots)) \subseteq DOMAIN choices)

\* The cost remove_more_expensive_nodes gives node i of a class: the
\* dag_cost of the warm start at the node's children plus the node's cost
\* in the e-graph.
cheapest_measure(g, initial_result, class, i) ==
  CostAdd(dag_cost(g, initial_result, class.childrens_classes[i]),
          g.nodes[class.members[i]].cost)

\* min_by_key: the first index of least measure
cheapest_index(g, initial_result, class) ==
  CHOOSE i \in DOMAIN class.members :
    /\ \A j \in DOMAIN class.members :
         cheapest_measure(g, initial_result, class, i)
           <= cheapest_measure(g, initial_result, class, j)
    /\ \A j \in 1..(i - 1) :
         cheapest_measure(g, initial_result, class, j)
           > cheapest_measure(g, initial_result, class, i)

\* remove_more_expensive_nodes: in a class of more than two nodes, drops
\* every node other than the cheapest whose own cost is at least the
\* cheapest measure.
remove_more_expensive_nodes(v, initial_result, g, config) ==
  IF v.panic \/ ~config.remove_more_expensive_nodes THEN v
  ELSE IF \E c \in Range(v.keys) :
            /\ Len(v.at[c].members) > 2
            /\ \E i \in DOMAIN v.at[c].members :
                 dag_cost_panics(g, initial_result, v.at[c].childrens_classes[i])
       THEN [v EXCEPT !.panic = TRUE]
       ELSE ForEachClass(v, LAMBDA class_id, class :
              IF Len(class.members) <= 2 THEN class
              ELSE LET cheapest == cheapest_index(g, initial_result, class)
                       cheapest_cost ==
                         cheapest_measure(g, initial_result, class, cheapest)
                   IN ClassILP_retain(class,
                        {i \in DOMAIN class.members :
                           ~(class.costs[i] >= cheapest_cost /\ i # cheapest)}))

\* sort_by_key (stable): the indices of keys by ascending key, ties in order.
RECURSIVE StableOrder(_, _)
StableOrder(keys, left) ==
  IF left = {} THEN <<>>
  ELSE LET i == CHOOSE a \in left :
                  \A b \in left : keys[a] < keys[b] \/ (keys[a] = keys[b] /\ a <= b)
       IN <<i>> \o StableOrder(keys, left \ {i})

\* The loops over i and j of remove_more_expensive_subsumed_nodes, on the
\* sorted node indices.
RECURSIVE subsumed_to_remove(_, _, _, _)
subsumed_to_remove(class, order, i, to_remove) ==
  IF i > Len(order) THEN to_remove
  ELSE IF order[i] \in to_remove
       THEN subsumed_to_remove(class, order, i + 1, to_remove)
       ELSE subsumed_to_remove(class, order, i + 1,
              to_remove \cup
                {order[j] : j \in
                   {k \in (i + 1)..Len(order) :
                      /\ class.costs[order[i]] <= class.costs[order[k]]
                      /\ Range(class.childrens_classes[order[i]])
                           \subseteq Range(class.childrens_classes[order[k]])}})

\* remove_more_expensive_subsumed_nodes: drops a node when another node of
\* the class costs no more and has a subset of its children.
remove_more_expensive_subsumed_nodes(v, config) ==
  IF v.panic \/ ~config.remove_more_expensive_subsumed_nodes THEN v
  ELSE ForEachClass(v, LAMBDA class_id, class :
         LET order == StableOrder([i \in DOMAIN class.members |->
                                     Len(class.childrens_classes[i])],
                                  DOMAIN class.members)
         IN ClassILP_retain(class,
              (DOMAIN class.members) \ subsumed_to_remove(class, order, 1, {})))

\* The children's classes of every node of class c.
AllChildren(v, c) ==
  UNION {Range(v.at[c].childrens_classes[i]) : i \in DOMAIN v.at[c].members}

\* reachable: the classes reached from S through any node.
RECURSIVE reachable(_, _)
reachable(v, S) ==
  LET T == S \cup UNION {AllChildren(v, c) : c \in S \cap Range(v.keys)}
  IN IF T = S THEN S ELSE reachable(v, T)

\* remove_unreachable_classes: retains the classes reachable from the roots.
\* (reachable unwraps vars.get(class) for every class it reaches.)
remove_unreachable_classes(v, roots, config) ==
  IF v.panic \/ ~config.remove_unreachable_classes THEN v
  ELSE LET reachable_classes == reachable(v, Range(roots))
       IN IF ~(reachable_classes \subseteq Range(v.keys))
          THEN [v EXCEPT !.panic = TRUE]
          ELSE [keys |-> SelectSeq(v.keys, LAMBDA c : c \in reachable_classes),
                at |-> [c \in Range(v.keys) \cap reachable_classes |-> v.at[c]],
                panic |-> FALSE]

RECURSIVE Concat(_)
Concat(ss) == IF ss = <<>> THEN <<>> ELSE Head(ss) \o Concat(Tail(ss))

\* classes_with_single_parent: the pairs <<child, parent>> of the classes
\* that are children of the nodes of exactly one class, in the order the
\* children are first met.
classes_with_single_parent(v) ==
  LET met == IndexSetOf(Concat([k \in DOMAIN v.keys |->
                                  Concat(v.at[v.keys[k]].childrens_classes)]))
      parents_set(c) == {p \in Range(v.keys) : c \in AllChildren(v, p)}
      single == SelectSeq(met, LAMBDA c : Cardinality(parents_set(c)) = 1)
  IN [k \in DOMAIN single |->
        <<single[k], CHOOSE p \in parents_set(single[k]) : TRUE>>]

\* The indices of the nodes of class parent that have class child as a child.
nodes_referring(v, parent, child) ==
  {i \in DOMAIN v.at[parent].members : child \in Range(v.at[parent].childrens_classes[i])}

\* The body of the loop of pull_up_with_single_parent for one pair: the
\* children of the only node of child move to the only node of parent that
\* refers to child.  st = [v, pull_up_count].
pull_up_pair(st, roots, child, parent) ==
  LET v == st.v IN
  IF v.panic \/ child = parent \/ child \in Range(roots) THEN st
  ELSE IF child \notin Range(v.keys) THEN [st EXCEPT !.v.panic = TRUE]
  ELSE IF Len(v.at[child].members) # 1 THEN st
  ELSE IF v.at[child].childrens_classes[1] = <<>> THEN st
  ELSE IF Cardinality(nodes_referring(v, parent, child)) # 1 THEN st
  ELSE LET idx == CHOOSE i \in nodes_referring(v, parent, child) : TRUE
           child_descendants == v.at[child].childrens_classes[1]
           parent_descendants ==
             IndexSetOf(v.at[parent].childrens_classes[idx] \o child_descendants)
       IN [v |-> [v EXCEPT !.at[parent].childrens_classes[idx] = parent_descendants,
                           !.at[child].childrens_classes[1] = <<>>],
           pull_up_count |-> st.pull_up_count + 1]

RECURSIVE pull_up_pairs(_, _, _)
pull_up_pairs(st, roots, pairs) ==
  IF pairs = <<>> THEN st
  ELSE pull_up_pairs(pull_up_pair(st, roots, Head(pairs)[1], Head(pairs)[2]),
                     roots, Tail(pairs))

\* `for _i in 0..10`, leaving at the first round that pulls nothing up.
RECURSIVE pull_up_rounds(_, _, _)
pull_up_rounds(v, roots, i) ==
  IF i >= 10 THEN v
  ELSE LET st == pull_up_pairs([v |-> v, pull_up_count |-> 0], roots,
                               classes_with_single_parent(v))
       IN IF st.pull_up_count = 0 THEN st.v ELSE pull_up_rounds(st.v, roots, i + 1)

pull_up_with_single_parent(v, roots, config) ==
  IF v.panic \/ ~config.pull_up_single_parent THEN v
  ELSE pull_up_rounds(v, roots, 0)

\* costs.iter().min().unwrap_or(&Cost::default())
min_cost_of(costs) ==
  IF costs = <<>> THEN 0
  ELSE CHOOSE m \in Range(costs) : \A k \in Range(costs) : m <= k

\* The body of the loop of pull_up_costs for one pair: the least cost of
\* the members of child moves to the nodes of parent that refer to child.
\* st = [v, count, changed].
pull_up_cost_pair(st, roots, child, parent) ==
  LET v == st.v
      counted == [st EXCEPT !.count = st.count + 1]
  IN
  IF v.panic THEN st
  ELSE IF child = parent \/ child \in Range(roots) THEN counted
  ELSE IF child \notin Range(v.keys) THEN [counted EXCEPT !.v.panic = TRUE]
  ELSE LET min_cost == min_cost_of(v.at[child].costs)
           indices == nodes_referring(v, parent, child)
       IN IF min_cost = 0 THEN counted
          ELSE IF indices = {} THEN [counted EXCEPT !.v.panic = TRUE]
          ELSE [v |-> [v EXCEPT
                         !.at[child].costs =
                           [i \in DOMAIN v.at[child].costs |->
                              CostSub(v.at[child].costs[i], min_cost)],
                         !.at[parent].costs =
                           [i \in DOMAIN v.at[parent].costs |->
                              IF i \in indices THEN CostAdd(v.at[parent].costs[i], min_cost)
                              ELSE v.at[parent].costs[i]]],
                count |-> st.count + 1,
                changed |-> TRUE]

RECURSIVE pull_up_cost_pairs(_, _, _)
pull_up_cost_pairs(st, roots, pairs) ==
  IF pairs = <<>> THEN st
  ELSE pull_up_cost_pairs(pull_up_cost_pair(st, roots, Head(pairs)[1], Head(pairs)[2]),
                          roots, Tail(pairs))

\* `while (count < 10) && changed`
RECURSIVE pull_up_cost_passes(_, _, _)
pull_up_cost_passes(st, roots, child_to_parent) ==
  IF st.count < 10 /\ st.changed /\ ~st.v.panic
  THEN pull_up_cost_passes(
         pull_up_cost_pairs([st EXCEPT !.changed = FALSE], roots, child_to_parent),
         roots, child_to_parent)
  ELSE st.v

pull_up_costs(v, roots, config) ==
  IF v.panic \/ ~config.pull_up_costs THEN v
  ELSE pull_up_cost_passes([v |-> v, count |-> 0, changed |-> TRUE], roots,
                           classes_with_single_parent(v))

\* One round of the preprocessing of extract.
preprocess_round(v, g, roots, config, initial_result, initial_result_cost) ==
  pull_up_costs(
    pull_up_with_single_parent(
      remove_unreachable_classes(
        remove_more_expensive_subsumed_nodes(
          remove_more_expensive_nodes(
            remove_high_cost(
              remove_with_loops(v, roots, config),
              initial_result_cost, config),
            initial_result, g, config),
          config),
        roots, config),
      roots, config),
    roots, config)

\* `for _i in 1..3`: the round runs twice.
preprocess(v, g, roots, config, initial_result, initial_result_cost) ==
  preprocess_round(
    preprocess_round(v, g, roots, config, initial_result, initial_result_cost),
    g, roots, config, initial_result, initial_result_cost)

(***************************************************************************)
(* The integer program.  Every class has a binary column `active` and one  *)
(* binary column per node.  The row "sum of the node columns = active"     *)
(* (and the upper bound 0 on `active` of a class without nodes) makes a    *)
(* solution a selection: per class 0 (not active) or the index of its one  *)
(* active node.  The other rows are stated on selections below.            *)
(***************************************************************************)
Selections(v) ==
  LET most == SumSeq([k \in DOMAIN v.keys |-> Len(v.at[v.keys[k]].members)])
  IN {s \in [Range(v.keys) -> 0..most] :
        \A c \in Range(v.keys) : s[c] <= Len(v.at[c].members)}

\* solution.col(var.active) and solution.col(node variable), as 0 or 1
active_col(s, c) == IF s[c] # 0 THEN 1 ELSE 0

node_col(s, c, i) == IF s[c] = i THEN 1 ELSE 0

\* The classes in the children of every node of a class; empty when the
\* intersection is switched off.
intersection(v, c, config) ==
  IF ~config.take_intersection_of_children_in_class THEN {}
  ELSE {cc \in Range(v.at[c].childrens_classes[1]) :
          \A i \in DOMAIN v.at[c].members : cc \in Range(v.at[c].childrens_classes[i])}

\* The rows of a class with members: class active implies the intersection
\* active; node active implies each of its other children active.
class_rows(v, c, config, s) ==
  Len(v.at[c].members) > 0 =>
    /\ \A cc \in intersection(v, c, config) : active_col(s, c) - active_col(s, cc) <= 0
    /\ \A i \in DOMAIN v.at[c].members :
         \A cc \in Range(v.at[c].childrens_classes[i]) \ intersection(v, c, config) :
           node_col(s, c, i) - active_col(s, cc) <= 0

\* model.set_col_lower(vars[root].active, 1.0)
root_rows(roots, s) == \A r \in Range(roots) : active_col(s, r) >= 1

\* The objective: the least member cost on `active` when it is moved to the
\* class, and the rest of each node's cost on the node.
objective(v, config, s) ==
  SumOver([c \in Range(v.keys) |->
             LET min_cost == IF config.move_min_cost_of_members_to_class
                             THEN min_cost_of(v.at[c].costs) ELSE 0
             IN IF s[c] = 0 THEN 0
                ELSE min_cost + (v.at[c].costs[s[c]] - min_cost)],
          Range(v.keys))

\* prior_block: the levels are integer columns within 0..vars.len()
Levels(v) == [Range(v.keys) -> 0..Len(v.keys)]

\* opposite_col equal to n.variable instead of its complement
opposite_col_same(s, c, i) == node_col(s, c, i)

\* opposite_col + n.variable = 1
opposite_col(s, c, i) == 1 - node_col(s, c, i)

\* The row of node i of class c and its child class cc:
\* level[c] - level[cc] - (vars.len() + 1) * opposite <= -1
level_row_not_strict(v, s, levels, c, i, cc) ==
  levels[c] - levels[cc] - (Len(v.keys) + 1) * opposite_col(s, c, i) <= 0

level_row(v, s, levels, c, i, cc) ==
  levels[c] - levels[cc] - (Len(v.keys) + 1) * opposite_col(s, c, i) <= -1

\* The rows of prior_block: a node with a child in its own class is
\* disabled; every other node gets a level row per child.
prior_block_rows(v, s, levels) ==
  \A c \in Range(v.keys) : \A i \in DOMAIN v.at[c].members :
    IF c \in Range(v.at[c].childrens_classes[i])
    THEN node_col(s, c, i) = 0
    ELSE \A cc \in Range(v.at[c].childrens_classes[i]) :
           level_row(v, s, levels, c, i, cc)

prior_block(v, config, s) ==
  config.prior_block_cycles => \E levels \in Levels(v) : prior_block_rows(v, s, levels)

\* block_cycle with cycle[i + 1] read without the wrap to the first class
\* (the last class is paired with itself)
block_cycle_no_wrap(v, cycle, s) ==
  cycle # <<>> =>
    \E blocking \in [DOMAIN cycle -> {0, 1}] :
      /\ \A k \in DOMAIN cycle :
           LET current_class_id == cycle[k]
               next_class_id == cycle[IF k < Len(cycle) THEN k + 1 ELSE k]
           IN \A i \in DOMAIN v.at[current_class_id].members :
                next_class_id \in Range(v.at[current_class_id].childrens_classes[i])
                  => node_col(s, current_class_id, i) - blocking[k] <= 0
      /\ SumSeq(blocking) <= Len(cycle) - 1

\* block_cycle: a binary blocking column per edge of the cycle, at least
\* the column of every node of the edge's class that has the next class as
\* a child; the blocking columns sum to at most their number less one.
block_cycle(v, cycle, s) ==
  cycle # <<>> =>
    \E blocking \in [DOMAIN cycle -> {0, 1}] :
      /\ \A k \in DOMAIN cycle :
           LET current_class_id == cycle[k]
               next_class_id == cycle[(k % Len(cycle)) + 1]
           IN \A i \in DOMAIN v.at[current_class_id].members :
                next_class_id \in Range(v.at[current_class_id].childrens_classes[i])
                  => node_col(s, current_class_id, i) - blocking[k] <= 0
      /\ SumSeq(blocking) <= Len(cycle) - 1

\* The selections that satisfy every row of the model.
Feasible(v, roots, config, blocked) ==
  {s \in Selections(v) :
     /\ \A c \in Range(v.keys) : class_rows(v, c, config, s)
     /\ root_rows(roots, s)
     /\ prior_block(v, config, s)
     /\ \A cycle \in blocked : block_cycle(v, cycle, s)}

\* The solutions a finished solve may hand back: the feasible selections of
\* least objective.
Optimal(v, roots, config, blocked) ==
  LET F == Feasible(v, roots, config, blocked)
  IN {s \in F : \A t \in F : objective(v, config, s) <= objective(v, config, t)}

\* The ExtractionResult read off a solution: the active node of every
\* active class.
result_of(v, s) ==
  [c \in {d \in Range(v.keys) : s[d] # 0} |-> v.at[c].members[s[c]]]

\* `cost` of the loop that reads the solution: var.costs of the active
\* nodes, added up class by class in the order of vars.
cost_of(v, s) ==
  sum_costs([k \in DOMAIN v.keys |->
               IF s[v.keys[k]] = 0 THEN 0 ELSE v.at[v.keys[k]].costs[s[v.keys[k]]]])

(***************************************************************************)
(* GoodExtractor (ilp.rs): construct_problem has the same columns, no      *)
(* preprocessing, and a rank per class in place of the levels.             *)
(***************************************************************************)
\* rank(cid) + 1 <= rank(child_cid) + (1 - node_var) * M, M the number of
\* classes
rank_row(v, s, rank, c, i, cc) ==
  rank[c] + 1 <= rank[cc] + (1 - node_col(s, c, i)) * Len(v.keys)

\* The constraints of construct_problem: the roots are active, an active
\* node has its children active, and the rank rows hold for some ranks
\* within 0..classes.len().
GoodFeasible(v, roots) ==
  {s \in Selections(v) :
     /\ \A r \in Range(roots) : active_col(s, r) = 1
     /\ \A c \in Range(v.keys) : \A i \in DOMAIN v.at[c].members :
          \A cc \in Range(v.at[c].childrens_classes[i]) :
            node_col(s, c, i) <= active_col(s, cc)
     /\ \E rank \in [Range(v.keys) -> 0..Len(v.keys)] :
          \A c \in Range(v.keys) : \A i \in DOMAIN v.at[c].members :
            \A cc \in Range(v.at[c].childrens_classes[i]) :
              rank_row(v, s, rank, c, i, cc)}

\* The objective of construct_problem: the cost of the active nodes.
GoodOptimal(v, roots) ==
  LET F == GoodFeasible(v, roots)
  IN {s \in F : \A t \in F : cost_of(v, s) <= cost_of(v, t)}

CYCLE_LIMIT == 1000

\* cycle_dfs and the loop over the children of the chosen node.
\* st = [status, cycles, stack, panic].
RECURSIVE cycle_dfs(_, _, _, _)
RECURSIVE cycle_dfs_children(_, _, _, _)
cycle_dfs(extraction_result, v, class_id, st) ==
  IF st.panic THEN st
  ELSE IF class_id \in DOMAIN st.status
  THEN IF st.status[class_id] = "Done" THEN st
       ELSE LET pos == {k \in DOMAIN st.stack : st.stack[k] = class_id}
                first == CHOOSE k \in pos : \A j \in pos : k <= j
                cycle == IF pos = {} THEN <<>>
                         ELSE SubSeq(st.stack, first, Len(st.stack))
            IN [st EXCEPT !.cycles = Append(st.cycles, cycle)]
  ELSE IF Len(st.cycles) > CYCLE_LIMIT THEN st
  ELSE IF \/ class_id \notin DOMAIN extraction_result
          \/ class_id \notin Range(v.keys)
          \/ extraction_result[class_id] \notin Range(v.at[class_id].members)
  THEN [st EXCEPT !.panic = TRUE]
  ELSE LET node_id == extraction_result[class_id]
           idx == CHOOSE i \in DOMAIN v.at[class_id].members :
                    v.at[class_id].members[i] = node_id
           entered == [st EXCEPT !.status = Put(st.status, class_id, "Doing"),
                                 !.stack = Append(st.stack, class_id)]
           left == cycle_dfs_children(extraction_result, v,
                                      v.at[class_id].childrens_classes[idx], entered)
       IN IF left.panic THEN left
          ELSE [left EXCEPT !.stack = SubSeq(left.stack, 1, Len(left.stack) - 1),
                            !.status = Put(left.status, class_id, "Done")]

cycle_dfs_children(extraction_result, v, children, st) ==
  IF children = <<>> THEN st
  ELSE cycle_dfs_children(extraction_result, v, Tail(children),
                          cycle_dfs(extraction_result, v, Head(children), st))

\* find_cycles_in_result: a fresh stack per root, one status map.
RECURSIVE find_cycles_from(_, _, _, _)
find_cycles_from(extraction_result, v, roots, st) ==
  IF roots = <<>> THEN st
  ELSE find_cycles_from(extraction_result, v, Tail(roots),
         cycle_dfs(extraction_result, v, Head(roots), [st EXCEPT !.stack = <<>>]))

find_cycles_in_result(extraction_result, v, roots) ==
  find_cycles_from(extraction_result, v, roots,
                   [status |-> EmptyMap, cycles |-> <<>>, stack |-> <<>>, panic |-> FALSE])

(***************************************************************************)
(* extract, as steps.  ilp.pc is "start" before the call, "solve" at the   *)
(* head of the solve loop, "done" once extract has returned ilp.result and *)
(* "panic" once it has panicked (ilp.panic names the failed assertion or   *)
(* index).  ilp.blocked holds the cycles given to block_cycle so far, and  *)
(* ilp.status the status of the last solve ("None" before the first).      *)
(***************************************************************************)
\* The e-graphs explored for the ILP extractors: a class of three nodes
\* over a class of one, and a chain of three classes.
ILPShapes ==
  { [lay |-> <<1, 1, 1, 2>>, roots |-> <<1>>,
     lists |-> {<<>>, <<1>>, <<2>>}, ops |-> Ops, max_cost |-> ILPMaxCost],
    [lay |-> <<1, 2, 2, 3>>, roots |-> <<1>>,
     lists |-> {<<>>, <<2>>, <<3>>}, ops |-> Ops, max_cost |-> ILPMaxCost] }

\* coin_cbc::raw::Status other than Finished
NotFinished == {"Unlaunched", "Stopped", "Abandoned", "UserEvent"}

\* The extractors and the Configs they run under.  (GoodExtractor reads no
\* Config.)
Runs ==
  {[extractor |-> "FasterCbcExtractor", config |-> c] : c \in Configs}
    \cup {[extractor |-> "CbcExtractor", config |-> ConfigCbc],
          [extractor |-> "GoodExtractor", config |-> ConfigNone]}

ILPInit(run) ==
  [pc |-> "start",
   extractor |-> run.extractor,
   config |-> run.config,
   initial_result |-> EmptyMap,
   initial_result_cost |-> 0,
   vars |-> [keys |-> <<>>, at |-> EmptyMap, panic |-> FALSE],
   blocked |-> {},
   solves |-> 0,
   status |-> "None",
   result |-> EmptyMap,
   panic |-> ""]

notILP == <<egraph, bu, fgd, td, wl, driver, topk, beam, dc, trie>>

ILPPanic(st, what) == [st EXCEPT !.pc = "panic", !.panic = what]

ILPReturn(st, result) == [st EXCEPT !.pc = "done", !.result = result]

\* The warm start: FasterGreedyDagExtractor for CbcExtractor, and
\* GreedyDagExtractor for the faster extractor.
warm_start(g, extractor) ==
  IF extractor = "CbcExtractor" THEN FGDRun(g, FGDInit(g)) ELSE GreedyDagExtract(g)

\* childrens_classes_var, prior_block and block_cycle index vars and levels
\* by the children's classes: every one of them must be a key of vars.
children_are_keys(v) ==
  \A c \in Range(v.keys) : AllChildren(v, c) \subseteq Range(v.keys)

\* extract up to the solve loop: the warm start and its cost, the two
\* rounds of preprocessing, and the rows of the model.
ILPBuild ==
  /\ ilp.pc = "start"
  /\ ilp.extractor # "GoodExtractor"
  /\ LET g == egraph
         roots == egraph.root_eclasses
         initial_result == warm_start(g, ilp.extractor)
         st == [ilp EXCEPT !.initial_result = initial_result]
     IN IF dag_cost_panics(g, initial_result, roots)
        THEN ilp' = ILPPanic(st, "initial_result.dag_cost")
        ELSE LET initial_result_cost == dag_cost(g, initial_result, roots)
                 v == preprocess(ilp_vars(g), g, roots, ilp.config,
                                 initial_result, initial_result_cost)
                 built == [st EXCEPT !.initial_result_cost = initial_result_cost,
                                     !.vars = v]
             IN IF v.panic THEN ilp' = ILPPanic(built, "preprocessing")
                ELSE IF /\ ilp.extractor = "FasterCbcExtractor"
                        /\ \E c \in Range(v.keys) :
                             Len(v.at[c].members) = 0 /\ c \in Range(roots)
                THEN ilp' = ILPReturn(built, EmptyMap)
                ELSE IF ~children_are_keys(v) \/ ~(Range(roots) \subseteq Range(v.keys))
                THEN ilp' = ILPPanic(built, "vars[class]")
                ELSE ilp' = [built EXCEPT !.pc = "solve"]
  /\ UNCHANGED notILP

\* `return initial_result` of the branch status != Finished
timed_out_result_last_read(st) == st.result

timed_out_result(st) == st.initial_result

\* solution.raw().status() != Finished: the warm start is returned.
ILPNotFinished ==
  /\ ilp.pc = "solve"
  /\ ilp.extractor # "GoodExtractor"
  /\ \E status \in NotFinished :
       ilp' = ILPReturn([ilp EXCEPT !.status = status], timed_out_result(ilp))
  /\ UNCHANGED notILP

\* What follows the reading of solution s with objective value obj_value:
\* the search for cycles, then the assertions and the return, or the
\* blocking of the cycles found and the next turn of the loop.
after_solution(st, g, s, obj_value) ==
  LET roots == g.root_eclasses
      v == st.vars
      result == result_of(v, s)
      cost == cost_of(v, s)
      found == find_cycles_in_result(result, v, roots)
      read == [st EXCEPT !.status = "Finished", !.result = result]
  IN IF found.panic THEN ILPPanic(read, "find_cycles_in_result")
     ELSE IF found.cycles = <<>>
     THEN IF ~(cost <= st.initial_result_cost)
          THEN ILPPanic(read, "assert cost <= initial_result_cost")
          ELSE IF dag_cost_panics(g, result, roots)
          THEN ILPPanic(read, "result.dag_cost")
          ELSE IF dag_cost(g, result, roots) # cost
          THEN ILPPanic(read, "assert dag_cost = cost")
          ELSE IF cost # obj_value
          THEN ILPPanic(read, "assert cost = obj_value")
          ELSE ILPReturn(read, result)
     ELSE IF st.extractor = "FasterCbcExtractor" /\ st.config.prior_block_cycles
     THEN ILPPanic(read, "assert !config.prior_block_cycles")
     ELSE [read EXCEPT !.blocked = st.blocked \cup Range(found.cycles),
                       !.solves = st.solves + 1]

\* The solve finishes with an optimal solution of the model.
ILPSolved ==
  /\ ilp.pc = "solve"
  /\ ilp.extractor # "GoodExtractor"
  /\ \E s \in Optimal(ilp.vars, egraph.root_eclasses, ilp.config, ilp.blocked) :
       ilp' = after_solution(ilp, egraph, s, objective(ilp.vars, ilp.config, s))
  /\ UNCHANGED notILP

\* The solve finishes and proves the model infeasible: the faster extractor
\* returns the empty result.
ILPInfeasible ==
  /\ ilp.pc = "solve"
  /\ ilp.extractor = "FasterCbcExtractor"
  /\ Feasible(ilp.vars, egraph.root_eclasses, ilp.config, ilp.blocked) = {}
  /\ ilp' = ILPReturn([ilp EXCEPT !.status = "Finished"], EmptyMap)
  /\ UNCHANGED notILP

\* CbcExtractor does not test for infeasibility and reads the columns of a
\* model that has no solution: the values are whatever the solver left in
\* them.  Either the reading asserts fail, or some selection is read.
ILPInfeasibleRead ==
  /\ ilp.pc = "solve"
  /\ ilp.extractor = "CbcExtractor"
  /\ Feasible(ilp.vars, egraph.root_eclasses, ilp.config, ilp.blocked) = {}
  /\ \/ ilp' = ILPPanic([ilp EXCEPT !.status = "Finished"], "assert_eq 1 active node")
     \/ \E s \in Selections(ilp.vars) :
          \E obj_value \in {cost_of(ilp.vars, s), cost_of(ilp.vars, s) + 1} :
            ilp' = after_solution(ilp, egraph, s, obj_value)
  /\ UNCHANGED notILP

\* GoodExtractor::extract up to solve: construct_problem on the e-graph as
\* it is.
GoodBuild ==
  /\ ilp.pc = "start"
  /\ ilp.extractor = "GoodExtractor"
  /\ ilp' = [ilp EXCEPT !.pc = "solve", !.vars = ilp_vars(egraph)]
  /\ UNCHANGED notILP

\* solve returns a solution: an optimal one, or at the time limit the best
\* one the solver has found.  The result is the active node of each class.
GoodSolved ==
  /\ ilp.pc = "solve"
  /\ ilp.extractor = "GoodExtractor"
  /\ \/ \E s \in GoodOptimal(ilp.vars, egraph.root_eclasses) :
          ilp' = ILPReturn([ilp EXCEPT !.status = "Optimal"], result_of(ilp.vars, s))
     \/ \E s \in GoodFeasible(ilp.vars, egraph.root_eclasses) :
          ilp' = ILPReturn([ilp EXCEPT !.status = "TimeLimit"], result_of(ilp.vars, s))
  /\ UNCHANGED notILP

\* model.solve().expect("Solving failed."): the solver reports an error,
\* as it does for a model without solution.
GoodFailed ==
  /\ ilp.pc = "solve"
  /\ ilp.extractor = "GoodExtractor"
  /\ GoodFeasible(ilp.vars, egraph.root_eclasses) = {}
  /\ ilp' = ILPPanic(ilp, "Solving failed.")
  /\ UNCHANGED notILP

InitILP ==
  /\ trie = Idle
  /\ InitEGraph(ILPShapes)
  /\ \E run \in Runs : ilp = ILPInit(run)
  /\ bu = Idle
  /\ fgd = Idle
  /\ td = Idle
  /\ wl = Idle
  /\ driver = Idle
  /\ topk = Idle
  /\ beam = Idle
  /\ dc = Idle

NextILP ==
  \/ ILPBuild
  \/ ILPNotFinished
  \/ ILPSolved
  \/ ILPInfeasible
  \/ ILPInfeasibleRead
  \/ GoodBuild
  \/ GoodSolved
  \/ GoodFailed

SpecILP == InitILP /\ [][NextILP]_vars

(***************************************************************************)
(* Claims about the ILP extractors.                                        *)
(***************************************************************************)
\* The results of the other extractors on the same e-graph.
OtherResults(g) ==
  {BURun(g, BUInit).result, FGDRun(g, FGDInit(g)), GreedyDagExtract(g)}

\* C5: when CbcExtractor, or the faster extractor under any Config, returns
\* without the solver having stopped early, the dag_cost of its result at
\* the roots is defined and at most the dag_cost of the result of every
\* other extractor whose result covers the roots.
C5_ILPOptimal ==
  (/\ ilp.pc = "done"
   /\ ilp.extractor \in {"CbcExtractor", "FasterCbcExtractor"}
   /\ ilp.status \notin NotFinished) =>
    \A other \in OtherResults(egraph) :
      ~dag_cost_panics(egraph, other, egraph.root_eclasses) =>
        /\ ~dag_cost_panics(egraph, ilp.result, egraph.root_eclasses)
        /\ dag_cost(egraph, ilp.result, egraph.root_eclasses)
             <= dag_cost(egraph, other, egraph.root_eclasses)

\* The children's classes of the node a selection activates in class c.
selected_children(v, s, c) ==
  IF s[c] = 0 THEN {} ELSE Range(v.at[c].childrens_classes[s[c]])

RECURSIVE selected_closure(_, _, _)
selected_closure(v, s, S) ==
  LET T == S \cup UNION {selected_children(v, s, c) : c \in S \cap Range(v.keys)}
  IN IF T = S THEN S ELSE selected_closure(v, s, T)

\* The choice graph of a selection has no cycle.
SelectionAcyclic(v, s) ==
  \A c \in Range(v.keys) :
    c \notin selected_closure(v, s, selected_children(v, s, c))

\* C9: with prior_block_cycles on, every selection that satisfies the rows
\* of prior_block has an acyclic choice graph, and so has every selection
\* that satisfies the rank rows of construct_problem; a result returned by
\* a finished solve has no cycle, and the assertion
\* `!config.prior_block_cycles` of the cycle-blocking branch never fails.
C9_LevelEncodingAcyclic ==
  /\ (/\ ilp.pc = "solve"
      /\ ilp.extractor = "FasterCbcExtractor"
      /\ ilp.config.prior_block_cycles) =>
       \A s \in Selections(ilp.vars) :
         prior_block(ilp.vars, ilp.config, s) => SelectionAcyclic(ilp.vars, s)
  /\ (ilp.pc = "solve" /\ ilp.extractor = "GoodExtractor") =>
       \A s \in GoodFeasible(ilp.vars, egraph.root_eclasses) :
         SelectionAcyclic(ilp.vars, s)
  /\ (/\ ilp.pc = "done"
      /\ ilp.status = "Finished"
      /\ ilp.extractor = "FasterCbcExtractor"
      /\ ilp.config.prior_block_cycles) =>
       Acyclic(egraph, ilp.result)
  /\ ilp.panic # "assert !config.prior_block_cycles"

\* A finished solve under prior_block_cycles returned a result although a
\* cheaper selection satisfies every other row of the model and has a
\* cycle: the level rows alone kept the solver from it.
C9_Witness ==
  /\ ilp.pc = "done"
  /\ ilp.status = "Finished"
  /\ ilp.extractor = "FasterCbcExtractor"
  /\ ilp.config.prior_block_cycles
  /\ ilp.result # EmptyMap
  /\ \E s \in Feasible(ilp.vars, egraph.root_eclasses,
                       [ilp.config EXCEPT !.prior_block_cycles = FALSE], {}) :
       /\ ~SelectionAcyclic(ilp.vars, s)
       /\ cost_of(ilp.vars, s) < dag_cost(egraph, ilp.result, egraph.root_eclasses)

\* C10: when a solve of CbcExtractor or of the faster extractor ends with a
\* status other than Finished, extract returns, without a panic, exactly
\* the result of its warm-start extractor on the e-graph.
C10_TimeoutReturnsWarmStart ==
  ilp.status \in NotFinished =>
    /\ ilp.pc = "done"
    /\ ilp.result = warm_start(egraph, ilp.extractor)

\* A solve stopped early after an earlier solve had finished with a cycle
\* that was then blocked, and the warm start returned chooses a node for
\* every root.
C10_Witness ==
  /\ ilp.pc = "done"
  /\ ilp.status \in NotFinished
  /\ ilp.solves > 0
  /\ Range(egraph.root_eclasses) \subseteq DOMAIN ilp.result

\* C11: when CbcExtractor or the faster extractor has ended and either a
\* root class has no node left in vars after preprocessing, or the last
\* solve finished on a model without any feasible selection, the call has
\* returned (no panic) and the result has no choices.
C11_InfeasibleReturnsEmpty ==
  (/\ ilp.extractor \in {"CbcExtractor", "FasterCbcExtractor"}
   /\ ilp.pc \in {"done", "panic"}
   /\ \/ \E r \in Range(egraph.root_eclasses) \cap Range(ilp.vars.keys) :
           Len(ilp.vars.at[r].members) = 0
      \/ /\ ilp.status = "Finished"
         /\ Feasible(ilp.vars, egraph.root_eclasses, ilp.config, ilp.blocked) = {}) =>
    /\ ilp.pc = "done"
    /\ ilp.result = EmptyMap

(***************************************************************************)
(* The driver (main.rs): the selected extractor is run on the e-graph and  *)
(* its roots, the result is checked, its tree and DAG costs are computed   *)
(* and the record is written.  driver.pc is "extract", "check", "costs",   *)
(* "written" once main has returned, or "panic".                           *)
(***************************************************************************)
\* ExtractionResult::cycle_dfs and its loop over the children of the chosen
\* node.  st = [status, cycles, panic]; choices[class_id] panics on a class
\* without a choice.
RECURSIVE result_cycle_dfs(_, _, _, _)
RECURSIVE result_cycle_dfs_children(_, _, _, _)
result_cycle_dfs(g, choices, class_id, st) ==
  IF st.panic THEN st
  ELSE IF class_id \in DOMAIN st.status
  THEN IF st.status[class_id] = "Done" THEN st
       ELSE [st EXCEPT !.cycles = Append(st.cycles, class_id)]
  ELSE IF class_id \notin DOMAIN choices THEN [st EXCEPT !.panic = TRUE]
  ELSE LET entered == [st EXCEPT !.status = Put(st.status, class_id, "Doing")]
           left == result_cycle_dfs_children(g, choices,
                     g.nodes[choices[class_id]].children, entered)
       IN IF left.panic THEN left
          ELSE [left EXCEPT !.status = Put(left.status, class_id, "Done")]

result_cycle_dfs_children(g, choices, children, st) ==
  IF children = <<>> THEN st
  ELSE result_cycle_dfs_children(g, choices, Tail(children),
         result_cycle_dfs(g, choices, Head(children), st))

RECURSIVE find_cycles_roots(_, _, _, _)
find_cycles_roots(g, choices, roots, st) ==
  IF roots = <<>> THEN st
  ELSE find_cycles_roots(g, choices, Tail(roots),
         result_cycle_dfs(g, choices, Head(roots), st))

\* ExtractionResult::find_cycles
find_cycles(g, choices, roots) ==
  find_cycles_roots(g, choices, roots,
                    [status |-> EmptyMap, cycles |-> <<>>, panic |-> FALSE])

\* ExtractionResult::check: every assertion holds.
check(g, choices) ==
  /\ g.root_eclasses # <<>>
  /\ \A cid \in Range(g.root_eclasses) : cid \in DOMAIN choices
  /\ ~find_cycles(g, choices, g.root_eclasses).panic
  /\ find_cycles(g, choices, g.root_eclasses).cycles = <<>>
  /\ \A cid \in DOMAIN choices : g.nodes[choices[cid]].eclass = cid
  /\ Closure(g, choices, Range(g.root_eclasses)) \subseteq DOMAIN choices

\* The extractors the driver is run with here, by name.
DriverExtractors == {"bottom-up", "greedy-dag", "faster-greedy-dag"}

\* ed.extractor.extract(&egraph, &egraph.root_eclasses)
extract_by(name, g) ==
  IF name = "bottom-up" THEN BURun(g, BUInit).result
  ELSE IF name = "greedy-dag" THEN GreedyDagExtract(g)
  ELSE FGDRun(g, FGDInit(g))

DriverInit(name) ==
  [pc |-> "extract", extractor |-> name, result |-> EmptyMap, tree |-> 0, dag |-> 0]

notDriver == <<egraph, bu, fgd, td, wl, ilp, topk, beam, dc, trie>>

\* let result = ed.extractor.extract(..)
DriverExtract ==
  /\ driver.pc = "extract"
  /\ driver' = [driver EXCEPT !.pc = "check",
                              !.result = extract_by(driver.extractor, egraph)]
  /\ UNCHANGED notDriver

\* result.check(&egraph)
DriverCheck ==
  /\ driver.pc = "check"
  /\ driver' = [driver EXCEPT !.pc = IF check(egraph, driver.result)
                                     THEN "costs" ELSE "panic"]
  /\ UNCHANGED notDriver

\* let tree = result.tree_cost(..); let dag = result.dag_cost(..)
DriverCosts ==
  /\ driver.pc = "costs"
  /\ driver' = [driver EXCEPT
       !.pc = "write",
       !.tree = tree_cost(egraph, driver.result, egraph.root_eclasses),
       !.dag = dag_cost(egraph, driver.result, egraph.root_eclasses)]
  /\ UNCHANGED notDriver

\* writeln!(out_file, ..).unwrap(), and main returns
DriverWrite ==
  /\ driver.pc = "write"
  /\ driver' = [driver EXCEPT !.pc = "written"]
  /\ UNCHANGED notDriver

\* The e-graphs the driver is run on: those of the ILP runs, and a layout
\* with two parents of one class, repeated children and repeated roots.
DriverShapes ==
  ILPShapes \cup
  { [lay |-> <<1, 2, 3, 3>>, roots |-> <<1, 3, 1>>,
     lists |-> {<<>>, <<3>>, <<2, 3>>, <<3, 3>>}, ops |-> Ops,
     max_cost |-> ILPMaxCost] }

InitDriver ==
  /\ trie = Idle
  /\ InitEGraph(DriverShapes)
  /\ \E name \in DriverExtractors : driver = DriverInit(name)
  /\ bu = Idle
  /\ fgd = Idle
  /\ td = Idle
  /\ wl = Idle
  /\ ilp = Idle
  /\ topk = Idle
  /\ beam = Idle
  /\ dc = Idle

NextDriver == DriverExtract \/ DriverCheck \/ DriverCosts \/ DriverWrite

SpecDriver == InitDriver /\ [][NextDriver]_vars

\* C12: when the extractor has returned an empty result on an e-graph in
\* which some root has no derivation, the driver does not panic: once it
\* has ended, it has written its record.
C12_DriverSurvivesEmptyResult ==
  (/\ driver.pc \notin {"idle", "extract"}
   /\ driver.result = EmptyMap
   /\ ~AllRootsDerivable) =>
    driver.pc # "panic"

(***************************************************************************)
(* The beam extractor's candidates and TopK (beam/candidate.rs,            *)
(* beam/top_k.rs).  A candidate is [choices, cost] with choices a sequence *)
(* of <<class, node, cost>> kept sorted by class; a TopK is a sequence of  *)
(* at most k items.                                                        *)
(***************************************************************************)
\* Ord of integers, as an Ordering
int_cmp(a, b) == IF a < b THEN "Less" ELSE IF a > b THEN "Greater" ELSE "Equal"

\* Ord of the tuples (ClassId, NodeId, Cost): lexicographic
RECURSIVE tuple_cmp(_, _)
tuple_cmp(a, b) ==
  IF a = <<>> \/ b = <<>>
  THEN int_cmp(Len(a), Len(b))
  ELSE IF int_cmp(Head(a), Head(b)) # "Equal" THEN int_cmp(Head(a), Head(b))
       ELSE tuple_cmp(Tail(a), Tail(b))

\* Iterator::cmp of two choices vectors: lexicographic, a proper prefix is Less
RECURSIVE choices_cmp(_, _)
choices_cmp(a, b) ==
  IF a = <<>> \/ b = <<>>
  THEN int_cmp(Len(a), Len(b))
  ELSE IF tuple_cmp(Head(a), Head(b)) # "Equal" THEN tuple_cmp(Head(a), Head(b))
       ELSE choices_cmp(Tail(a), Tail(b))

\* Ord for Candidate: first by cost, then by choices
Candidate_cmp(a, b) ==
  IF int_cmp(a.cost, b.cost) = "Equal" THEN choices_cmp(a.choices, b.choices)
  ELSE int_cmp(a.cost, b.cost)

Candidate_empty == [choices |-> <<>>, cost |-> 0]

Candidate_leaf(cid, nid, cost) == [choices |-> <<<<cid, nid, cost>>>>, cost |-> cost]

\* Candidate::contains
Candidate_contains(c, cid) == \E i \in 1..Len(c.choices) : c.choices[i][1] = cid

\* Candidate::insert: the choice goes to its place in class order; a class
\* already in the candidate is a panic (the record gets panic |-> TRUE).
Candidate_insert(c, cid, nid, cost) ==
  IF Candidate_contains(c, cid)
  THEN [choices |-> c.choices, cost |-> c.cost, panic |-> TRUE]
  ELSE LET pos == Cardinality({i \in 1..Len(c.choices) : c.choices[i][1] < cid})
       IN [choices |-> SubSeq(c.choices, 1, pos) \o <<<<cid, nid, cost>>>>
                         \o SubSeq(c.choices, pos + 1, Len(c.choices)),
           cost |-> CostAdd(c.cost, cost)]

\* TopK::new
TopK_new == <<>>

\* TopK::singleton
TopK_singleton(candidate) == <<candidate>>

\* slice::binary_search on the sorted vector: Ok(index) of the equal
\* element, or Err(index) with the place that keeps the vector sorted.
binary_search(items, item) ==
  IF \E i \in 1..Len(items) : Candidate_cmp(items[i], item) = "Equal"
  THEN [ok |-> TRUE,
        index |-> (CHOOSE i \in 1..Len(items) :
                     Candidate_cmp(items[i], item) = "Equal") - 1]
  ELSE [ok |-> FALSE,
        index |-> Cardinality({i \in 1..Len(items) :
                                 Candidate_cmp(items[i], item) = "Less"})]

\* TopK::consider with the last element kept when the vector is full
\* (ArrayVec::insert would fail; here the vector grows)
TopK_consider_no_pop(items, item, BEAM) ==
  LET found == binary_search(items, item)
  IN IF found.ok THEN [items |-> items, kept |-> FALSE]
     ELSE IF found.index < BEAM
     THEN [items |-> SubSeq(items, 1, found.index) \o <<item>>
                       \o SubSeq(items, found.index + 1, Len(items)),
           kept |-> TRUE]
     ELSE [items |-> items, kept |-> FALSE]

\* TopK::consider: the new vector and the value returned
TopK_consider(items, item, BEAM) ==
  LET found == binary_search(items, item)
      room == IF Len(items) = BEAM THEN SubSeq(items, 1, Len(items) - 1)
              ELSE items
  IN IF found.ok THEN [items |-> items, kept |-> FALSE]
     ELSE IF found.index < BEAM
     THEN [items |-> SubSeq(room, 1, found.index) \o <<item>>
                       \o SubSeq(room, found.index + 1, Len(room)),
           kept |-> TRUE]
     ELSE [items |-> items, kept |-> FALSE]

\* TopK::merge with `changed &= self.consider(item)`: the items are merged
\* and the value returned is always false
RECURSIVE TopK_merge_never_changed(_, _, _)
TopK_merge_never_changed(items, other, BEAM) ==
  IF other = <<>> THEN [items |-> items, kept |-> FALSE]
  ELSE CHOOSE merged \in
         { [items |-> TopK_merge_never_changed(first.items, Tail(other), BEAM).items,
            kept |-> FALSE] :
             first \in {TopK_consider(items, Head(other), BEAM)} } : TRUE

\* TopK::merge: consider every item of other in its order; changed is the
\* disjunction of the values returned.  (Here and in the loops of the beam
\* extractor a value carried from one iteration to the next is bound by a
\* quantifier over a one-element set, so that it is computed once.)
RECURSIVE TopK_merge(_, _, _)
TopK_merge(items, other, BEAM) ==
  IF other = <<>> THEN [items |-> items, kept |-> FALSE]
  ELSE CHOOSE merged \in
         UNION { { [items |-> rest.items, kept |-> first.kept \/ rest.kept] :
                     rest \in {TopK_merge(first.items, Tail(other), BEAM)} } :
                 first \in {TopK_consider(items, Head(other), BEAM)} } : TRUE

\* TopK::cutoff: self.0.get(BEAM - 1)
TopK_cutoff(items, BEAM) ==
  IF Len(items) >= BEAM THEN <<items[BEAM]>> ELSE <<>>

\* Largest capacity of the TopK explored
MaxBeam == 3

\* The candidates offered to the TopK: equal costs with different choices,
\* different costs, one and two choices, and the empty candidate.
TopKItems ==
  { Candidate_empty,
    Candidate_leaf(1, 1, 0), Candidate_leaf(1, 2, 0), Candidate_leaf(1, 1, 1),
    Candidate_leaf(2, 3, 1),
    Candidate_insert(Candidate_leaf(2, 3, 1), 1, 1, 0),
    Candidate_insert(Candidate_leaf(1, 2, 0), 2, 3, 1) }

\* Every TopK of capacity BEAM over the items: strictly ascending vectors
TopKValues(BEAM) ==
  UNION { { s \in [1..n -> TopKItems] :
              \A i \in 1..(n - 1) : Candidate_cmp(s[i], s[i + 1]) = "Less" } :
          n \in 0..BEAM }

notTopK == <<egraph, bu, fgd, td, wl, ilp, driver, beam, dc, trie>>

\* topk.consider(item)
TopKConsider ==
  /\ topk.pc = "run"
  /\ \E item \in TopKItems :
       LET r == TopK_consider(topk.items, item, topk.BEAM)
       IN topk' = [topk EXCEPT !.items = r.items,
                               !.offered = @ \cup {item},
                               !.last = [op |-> "consider", item |-> item,
                                         before |-> topk.items, ret |-> r.kept]]
  /\ UNCHANGED notTopK

\* topk.merge(other)
TopKMerge ==
  /\ topk.pc = "run"
  /\ \E other \in TopKValues(topk.BEAM) :
       LET r == TopK_merge(topk.items, other, topk.BEAM)
       IN topk' = [topk EXCEPT !.items = r.items,
                               !.offered = @ \cup Range(other),
                               !.last = [op |-> "merge", item |-> other,
                                         before |-> topk.items, ret |-> r.kept]]
  /\ UNCHANGED notTopK

InitTopK ==
  /\ trie = Idle
  /\ \E BEAM \in 1..MaxBeam :
       topk = [pc |-> "run", BEAM |-> BEAM, items |-> TopK_new, offered |-> {},
               last |-> [op |-> "new", item |-> <<>>, before |-> <<>>,
                         ret |-> FALSE]]
  /\ egraph = Idle
  /\ bu = Idle
  /\ fgd = Idle
  /\ td = Idle
  /\ wl = Idle
  /\ ilp = Idle
  /\ driver = Idle
  /\ beam = Idle
  /\ dc = Idle

NextTopK == TopKConsider \/ TopKMerge

SpecTopK == InitTopK /\ [][NextTopK]_vars

\* The n smallest elements of a finite set of candidates
SmallestOf(S, n) ==
  CHOOSE T \in SUBSET S :
    /\ Cardinality(T) = IF Cardinality(S) < n THEN Cardinality(S) ELSE n
    /\ \A t \in T : \A s \in S \ T : Candidate_cmp(t, s) = "Less"

\* C19: a TopK of capacity K that started empty holds, after any consider
\* and merge calls, exactly the min(K, number of distinct items offered)
\* smallest distinct items offered, in strictly ascending order; consider
\* has returned true exactly when its item was inserted; cutoff is the K-th
\* smallest item offered, or nothing when fewer than K items are held.
C19_TopKHoldsSmallest ==
  topk.pc = "run" =>
    /\ Range(topk.items) = SmallestOf(topk.offered, topk.BEAM)
    /\ Len(topk.items) = Cardinality(Range(topk.items))
    /\ \A i \in 1..(Len(topk.items) - 1) :
         Candidate_cmp(topk.items[i], topk.items[i + 1]) = "Less"
    /\ topk.last.op = "consider" =>
         (topk.last.ret <=> /\ topk.last.item \in Range(topk.items)
                            /\ topk.last.item \notin Range(topk.last.before))
    /\ TopK_cutoff(topk.items, topk.BEAM) =
         IF Len(topk.items) < topk.BEAM THEN <<>>
         ELSE <<CHOOSE t \in SmallestOf(topk.offered, topk.BEAM) :
                  \A s \in SmallestOf(topk.offered, topk.BEAM) :
                    Candidate_cmp(s, t) # "Greater">>

\* C19 witness: a full TopK of capacity two or more has dropped its worst
\* item for a new smallest one, consider has returned true, and more distinct
\* items were offered than it holds.
C19_Witness ==
  /\ topk.pc = "run"
  /\ topk.BEAM >= 2
  /\ Len(topk.items) = topk.BEAM
  /\ Cardinality(topk.offered) > topk.BEAM
  /\ topk.last.op = "consider"
  /\ topk.last.ret
  /\ Len(topk.last.before) = topk.BEAM
  /\ topk.items[1] = topk.last.item

(***************************************************************************)
(* The beam extractor (beam/mod.rs) on the compact e-graph                 *)
(* (beam/egraph.rs).  The e-graphs explored list their nodes class by      *)
(* class in ascending class order, so the compact ClassId and NodeId are   *)
(* the class and the position of the node.  beam.memo is the per-class     *)
(* TopK; the nodes of one pass are recomputed in any order.                *)
(***************************************************************************)
\* FastEgraph::children: the child classes, sorted and deduplicated
fast_children(g, nid) == SortedSeq(Range(g.nodes[nid].children))

\* FastEgraph::parents
fast_parents(g, cid) ==
  {nid \in 1..Len(g.nodes) : cid \in Range(g.nodes[nid].children)}

\* FastEgraph::min_cost
fast_min_cost(g, cid) ==
  LET costs == {g.nodes[n].cost : n \in Range(ClassNodes(g, cid))}
  IN IF costs = {} THEN INFINITY
     ELSE CHOOSE c \in costs : \A d \in costs : c <= d

\* Candidate::merge without the loop over what is left of other
\* (candidate.rs:96-100)
RECURSIVE merge_choices_drop_rest(_, _)
merge_choices_drop_rest(a, b) ==
  IF a = <<>> THEN <<>>
  ELSE IF b = <<>> THEN a
  ELSE IF Head(a)[1] < Head(b)[1]
  THEN <<Head(a)>> \o merge_choices_drop_rest(Tail(a), b)
  ELSE IF Head(a)[1] > Head(b)[1]
  THEN <<Head(b)>> \o merge_choices_drop_rest(a, Tail(b))
  ELSE <<Head(a)>> \o merge_choices_drop_rest(Tail(a), Tail(b))

\* Candidate::merge: the union in class order; on a class of both, the
\* choice of self is kept and counted once
RECURSIVE merge_choices(_, _)
merge_choices(a, b) ==
  IF a = <<>> THEN b
  ELSE IF b = <<>> THEN a
  ELSE IF Head(a)[1] < Head(b)[1] THEN <<Head(a)>> \o merge_choices(Tail(a), b)
  ELSE IF Head(a)[1] > Head(b)[1] THEN <<Head(b)>> \o merge_choices(a, Tail(b))
  ELSE <<Head(a)>> \o merge_choices(Tail(a), Tail(b))

Candidate_merge(self, other) ==
  LET choices == merge_choices(self.choices, other.choices)
  IN [choices |-> choices,
      cost |-> sum_costs([i \in 1..Len(choices) |-> choices[i][3]])]

\* cutoff().map_or(INFINITY, |c| c.cost())
cutoff_cost(items, BEAM) ==
  IF TopK_cutoff(items, BEAM) = <<>> THEN INFINITY
  ELSE TopK_cutoff(items, BEAM)[1].cost

\* BeamExtract::candidates, the loop over the partials: cx is the call's
\* context [g, memo, BEAM, roots, ban, cutoff, i], nc is new_candidates
RECURSIVE complete_partials(_, _, _, _)
complete_partials(cx, candidate, partials, nc) ==
  IF partials = <<>> THEN nc
  ELSE LET merged == Candidate_merge(Head(partials), candidate)
           cutoff == IF cutoff_cost(nc, cx.BEAM) < cx.cutoff
                     THEN cutoff_cost(nc, cx.BEAM) ELSE cx.cutoff
           remaining == SelectSeq(SubSeq(cx.roots, cx.i + 1, Len(cx.roots)),
                                  LAMBDA cid : ~Candidate_contains(merged, cid))
           lower_bound == SumSeq([j \in 1..Len(remaining) |->
                                    fast_min_cost(cx.g, remaining[j])])
       IN CHOOSE done \in
            { complete_partials(cx, candidate, Tail(partials), next) :
                next \in { IF CostAdd(merged.cost, lower_bound) >= cutoff THEN nc
                           ELSE TopK_consider(nc, merged, cx.BEAM).items } } : TRUE

\* BeamExtract::candidates, the loop over the beam of the root
RECURSIVE complete_from_beam(_, _, _, _)
complete_from_beam(cx, root_beam, partials, nc) ==
  IF root_beam = <<>> THEN nc
  ELSE CHOOSE done \in
         { complete_from_beam(cx, Tail(root_beam), partials, next) :
             next \in { IF cx.ban # 0 /\ Candidate_contains(Head(root_beam), cx.ban)
                        THEN nc
                        ELSE complete_partials(cx, Head(root_beam), partials, nc) } } :
         TRUE

\* BeamExtract::candidates, the loop over the roots in the order given
RECURSIVE candidates_loop(_, _)
candidates_loop(cx, candidates) ==
  IF cx.i > Len(cx.roots) THEN candidates
  ELSE LET cid == cx.roots[cx.i]
           have == SelectSeq(candidates, LAMBDA c : Candidate_contains(c, cid))
           partials == SelectSeq(candidates, LAMBDA c : ~Candidate_contains(c, cid))
           kept == TopK_merge(TopK_new, have, cx.BEAM).items
           new_candidates ==
             IF partials = <<>> THEN kept
             ELSE complete_from_beam(cx, cx.memo[cid], partials, kept)
       IN CHOOSE done \in
            { IF next = <<>> THEN TopK_new
              ELSE candidates_loop([cx EXCEPT !.i = cx.i + 1], next) :
                next \in {new_candidates} } : TRUE

\* BeamExtract::candidates; ban = 0 is None
beam_candidates(g, memo, BEAM, roots, ban, cutoff) ==
  IF \E cid \in Range(roots) : memo[cid] = <<>> THEN TopK_new
  ELSE IF SumSeq([j \in 1..Len(roots) |-> fast_min_cost(g, roots[j])]) >= cutoff
  THEN TopK_new
  ELSE candidates_loop([g |-> g, memo |-> memo, BEAM |-> BEAM, roots |-> roots,
                        ban |-> ban, cutoff |-> cutoff, i |-> 1],
                       TopK_singleton(Candidate_empty))

\* BeamExtract::node_candidates
node_candidates(g, memo, BEAM, nid, cutoff) ==
  LET cid == nid_to_cid(g, nid)
      cost == g.nodes[nid].cost
      children == fast_children(g, nid)
      below == beam_candidates(g, memo, BEAM, children, cid, INFINITY)
  IN IF cost >= cutoff THEN TopK_new
     ELSE IF children = <<>> THEN TopK_singleton(Candidate_leaf(cid, nid, cost))
     ELSE IF cid \in Range(children) THEN TopK_new
     ELSE [j \in 1..Len(below) |-> Candidate_insert(below[j], cid, nid, cost)]

\* BeamExtract::recompute_node: the memo after the call and the NodeStatus
recompute_node(g, memo, BEAM, nid) ==
  LET cid == nid_to_cid(g, nid)
      ready == \A child \in Range(fast_children(g, nid)) : memo[child] # <<>>
      cutoff == cutoff_cost(memo[cid], BEAM)
      merged == TopK_merge(memo[cid], node_candidates(g, memo, BEAM, nid, cutoff), BEAM)
  IN IF ~ready THEN [memo |-> memo, status |-> "NotReady"]
     ELSE [memo |-> [memo EXCEPT ![cid] = merged.items],
           status |-> IF merged.kept THEN "Updated" ELSE "Unchanged"]

all_nodes(g) == 1..Len(g.nodes)

NumClasses(g) == Cardinality({g.nodes[n].eclass : n \in all_nodes(g)})

\* BeamExtract::iterate up to the first pass: every memo is empty and the
\* workset holds the leaves, or every node when there is no leaf
BeamInit(g, BEAM) ==
  LET leaves == {nid \in all_nodes(g) : fast_children(g, nid) = <<>>}
  IN [pc |-> "pass", BEAM |-> BEAM,
      memo |-> [c \in 1..NumClasses(g) |-> TopK_new],
      worklist |-> IF leaves = {} THEN all_nodes(g) ELSE leaves,
      next_workset |-> {}, changed_any |-> FALSE, changed_global |-> FALSE]

\* one closure call of worklist.par_iter().for_each
beam_recompute(g, st, nid) ==
  LET r == recompute_node(g, st.memo, st.BEAM, nid)
  IN [st EXCEPT !.memo = r.memo,
                !.worklist = @ \ {nid},
                !.changed_any = @ \/ r.status = "Updated",
                !.next_workset =
                   IF r.status = "Updated"
                   THEN @ \cup fast_parents(g, nid_to_cid(g, nid)) ELSE @]

\* the end of a pass: swap the worksets, then the next pass of the inner
\* loop, the next global iteration over every node, or the end of iterate
beam_end_pass(g, st) ==
  LET changed_global == st.changed_global \/ st.changed_any
  IN IF st.next_workset # {}
     THEN [st EXCEPT !.worklist = st.next_workset, !.next_workset = {},
                     !.changed_any = FALSE, !.changed_global = changed_global]
     ELSE IF changed_global
     THEN [st EXCEPT !.worklist = all_nodes(g), !.next_workset = {},
                     !.changed_any = FALSE, !.changed_global = FALSE]
     ELSE [st EXCEPT !.pc = "done", !.changed_any = FALSE]

\* iterate with the nodes of every pass recomputed one after the other in
\* ascending NodeId order
RECURSIVE iterate_in_order(_, _)
iterate_in_order(g, st) ==
  IF st.pc = "done" THEN st
  ELSE IF st.worklist = {} THEN iterate_in_order(g, beam_end_pass(g, st))
  ELSE iterate_in_order(g, beam_recompute(g, st,
         CHOOSE nid \in st.worklist : \A other \in st.worklist : nid <= other))

\* Largest beam width explored
MaxWidth == 2

\* The e-graphs of the beam runs: per node, the child lists and the costs
\* it may have.  Class 1 has a node over the early class 2 and a node over
\* the late class 3 (whose node needs class 4); class 5 is over 1 and 2.
BeamShape ==
  [lay |-> <<1, 1, 2, 3, 4, 5>>, roots |-> <<5>>,
   lists |-> << {<<2>>, <<>>}, {<<3>>, <<2>>}, {<<>>}, {<<4>>, <<>>}, {<<>>},
                {<<1, 2>>, <<2, 1, 2>>, <<1>>} >>,
   costs |-> << {0, 1}, {0}, {0, 1, 2}, {0}, {0, 1}, {0} >>]

\* The e-graphs of shapes that give every node its own child lists and costs
NodewiseEGraphs(shapes) ==
  UNION { { MkEGraph(sh.lay, cs, ch, [i \in DOMAIN sh.lay |-> "f"], sh.roots) :
              cs \in {c \in [DOMAIN sh.lay -> UNION Range(sh.costs)] :
                        \A i \in DOMAIN sh.lay : c[i] \in sh.costs[i]},
              ch \in {l \in [DOMAIN sh.lay -> UNION Range(sh.lists)] :
                        \A i \in DOMAIN sh.lay : l[i] \in sh.lists[i]} } :
          sh \in shapes }

InitNodewise(shapes) == egraph \in NodewiseEGraphs(shapes)

InitBeamEGraph == InitNodewise({BeamShape})

notBeam == <<egraph, bu, fgd, td, wl, ilp, driver, topk, dc, trie>>

\* recompute_node(nid) for a node of the worklist, and what for_each does
\* with its status
BeamRecompute ==
  /\ beam.pc = "pass"
  /\ \E nid \in beam.worklist : beam' = beam_recompute(egraph, beam, nid)
  /\ UNCHANGED notBeam

\* every closure of the pass has returned
BeamEndPass ==
  /\ beam.pc = "pass"
  /\ beam.worklist = {}
  /\ beam' = beam_end_pass(egraph, beam)
  /\ UNCHANGED notBeam

InitBeam ==
  /\ trie = Idle
  /\ InitBeamEGraph
  /\ \E BEAM \in 1..MaxWidth : beam = BeamInit(egraph, BEAM)
  /\ bu = Idle
  /\ fgd = Idle
  /\ td = Idle
  /\ wl = Idle
  /\ ilp = Idle
  /\ driver = Idle
  /\ topk = Idle
  /\ dc = Idle

NextBeam == BeamRecompute \/ BeamEndPass

SpecBeam == InitBeam /\ [][NextBeam]_vars

\* C13: on a given e-graph with a given beam width, and with the child
\* classes taken in one fixed order when candidates are assembled, every
\* class beam holds at the end of iterate what it holds at the end of the
\* run that recomputes the nodes of each pass in NodeId order: the beams at
\* termination do not depend on the interleaving of the recompute_node calls.
C13_BeamsIndependentOfInterleaving ==
  beam.pc = "done" =>
    beam.memo = iterate_in_order(egraph, BeamInit(egraph, beam.BEAM)).memo

\* The classes reachable from the roots through the children of any node
RECURSIVE reachable_from(_, _)
reachable_from(g, S) ==
  LET T == S \cup UNION {Range(g.nodes[n].children) :
                           n \in {m \in DOMAIN g.nodes : g.nodes[m].eclass \in S}}
  IN IF T = S THEN S ELSE reachable_from(g, T)

\* The classes of g that are not reachable from its roots
orphans(g) ==
  {g.nodes[n].eclass : n \in DOMAIN g.nodes} \ reachable_from(g, Range(g.root_eclasses))

\* C14: the result of BottomUpExtractor and of FasterGreedyDagExtractor has
\* no entry for a class that is not reachable from the roots.
C14_NoOrphanInResult ==
  (/\ driver.pc \notin {"idle", "extract"}
   /\ driver.extractor \in {"bottom-up", "faster-greedy-dag"}) =>
    DOMAIN driver.result \cap orphans(egraph) = {}

\* g without the nodes of its orphan classes: the reachable subgraph, its
\* nodes in the order they have in g
reachable_subgraph(g) ==
  [nodes |-> SelectSeq(g.nodes, LAMBDA node : node.eclass \notin orphans(g)),
   root_eclasses |-> g.root_eclasses]

\* C15: when the driver has costed the result of BottomUpExtractor or of
\* FasterGreedyDagExtractor, the tree cost and the DAG cost at the roots are
\* those of the same extractor's result on the reachable subgraph: orphan
\* classes change neither.
C15_OrphansDoNotChangeCosts ==
  (/\ driver.pc \in {"write", "written"}
   /\ driver.extractor \in {"bottom-up", "faster-greedy-dag"}) =>
    LET sub == reachable_subgraph(egraph)
        on_sub == extract_by(driver.extractor, sub)
    IN /\ driver.tree = tree_cost(sub, on_sub, sub.root_eclasses)
       /\ driver.dag = dag_cost(sub, on_sub, sub.root_eclasses)

\* C15 witness: a costed result on an e-graph with an orphan class that has
\* an entry in the result, the DAG cost below the tree cost and above zero.
C15_Witness ==
  /\ driver.pc = "written"
  /\ driver.extractor \in {"bottom-up", "faster-greedy-dag"}
  /\ DOMAIN driver.result \cap orphans(egraph) # {}
  /\ 0 < driver.dag
  /\ driver.dag < driver.tree

(***************************************************************************)
(* The cost functions of ExtractionResult on arbitrary results             *)
(* (extract/mod.rs).  dc.choices is any map from classes to one of their   *)
(* nodes; dag_cost runs one iteration of its loop per step (dc.todo,       *)
(* dc.costs); then check is evaluated and tree_cost is computed for the    *)
(* results that pass it.                                                   *)
(***************************************************************************)
\* The e-graphs of the cost runs: repeated roots, repeated children, two
\* parents of one class, self-loops and a cycle through two classes.
\* Costs are small or as large as the significand, where sums are rounded.
CostShapes ==
  { [lay |-> <<1, 1, 2, 3>>, roots |-> r,
     lists |-> << {<<2, 3>>, <<3, 3>>, <<1>>}, {<<>>, <<2, 3>>},
                  {<<>>, <<3, 3>>, <<2, 3>>}, {<<>>, <<2, 3>>} >>,
     costs |-> << {0, Significand}, {0, 3}, {0, 3}, {0, 3, Significand} >>] :
    r \in {<<1>>, <<1, 2, 1>>} }

\* Most iterations of the loop of dag_cost a run may take
MaxDagCostSteps == 12

DCInit(choices) ==
  [pc |-> "start", choices |-> choices, passes |-> FALSE, todo |-> <<>>,
   costs |-> <<>>, steps |-> 0, dag |-> 0, tree |-> 0]

notDC == <<egraph, bu, fgd, td, wl, ilp, driver, topk, beam, trie>>

\* dag_cost up to its loop: costs empty, todo = roots.to_vec()
DCStart ==
  /\ dc.pc = "start"
  /\ dc' = [dc EXCEPT !.pc = "loop", !.todo = egraph.root_eclasses]
  /\ UNCHANGED notDC

\* one iteration of a loop that pushes the children at every pop, costed
\* before or not
DCPop_always_expand ==
  /\ dc.pc = "loop"
  /\ dc.todo # <<>>
  /\ dc.steps < MaxDagCostSteps
  /\ LET cid == dc.todo[Len(dc.todo)]
         rest == SubSeq(dc.todo, 1, Len(dc.todo) - 1)
     IN IF cid \notin DOMAIN dc.choices
        THEN dc' = [dc EXCEPT !.pc = "panic", !.todo = rest]
        ELSE LET node == egraph.nodes[dc.choices[cid]]
             IN dc' = [dc EXCEPT
                  !.steps = @ + 1,
                  !.costs = index_insert(dc.costs, cid, node.cost),
                  !.todo = rest \o node.children]
  /\ UNCHANGED notDC

\* one iteration of `while let Some(cid) = todo.pop()`
DCPop ==
  /\ dc.pc = "loop"
  /\ dc.todo # <<>>
  /\ dc.steps < MaxDagCostSteps
  /\ LET cid == dc.todo[Len(dc.todo)]
         rest == SubSeq(dc.todo, 1, Len(dc.todo) - 1)
     IN IF cid \notin DOMAIN dc.choices
        THEN dc' = [dc EXCEPT !.pc = "panic", !.todo = rest]
        ELSE LET node == egraph.nodes[dc.choices[cid]]
             IN dc' = [dc EXCEPT
                  !.steps = @ + 1,
                  !.costs = index_insert(dc.costs, cid, node.cost),
                  !.todo = IF \E i \in 1..Len(dc.costs) : dc.costs[i][1] = cid
                           THEN rest ELSE rest \o node.children]
  /\ UNCHANGED notDC

\* costs.values().sum() once todo is empty
DCReturn ==
  /\ dc.pc = "loop"
  /\ dc.todo = <<>>
  /\ dc' = [dc EXCEPT !.pc = "returned", !.dag = sum_values(dc.costs)]
  /\ UNCHANGED notDC

\* result.check(&egraph) evaluated (its panic is passes = FALSE), and
\* result.tree_cost(&egraph, roots) of a result that passes it
DCCheckTree ==
  /\ dc.pc = "returned"
  /\ dc' = [dc EXCEPT
       !.pc = "done",
       !.passes = check(egraph, dc.choices),
       !.tree = IF check(egraph, dc.choices)
                THEN tree_cost(egraph, dc.choices, egraph.root_eclasses) ELSE 0]
  /\ UNCHANGED notDC

InitDC ==
  /\ trie = Idle
  /\ InitNodewise(CostShapes)
  /\ \E choices \in ChoiceMaps(egraph) : dc = DCInit(choices)
  /\ bu = Idle
  /\ fgd = Idle
  /\ td = Idle
  /\ wl = Idle
  /\ ilp = Idle
  /\ driver = Idle
  /\ topk = Idle
  /\ beam = Idle

NextDC == DCStart \/ DCPop \/ DCReturn \/ DCCheckTree

SpecDC == InitDC /\ [][NextDC]_vars

\* dag_cost is one thread's sequential code: once called it keeps running.
SpecDCFair == SpecDC /\ WF_vars(DCStart \/ DCPop \/ DCReturn)

\* The result is closed under children from the roots: every class reached
\* from a root through the chosen nodes has a choice.
ClosedFromRoots(g, choices) ==
  Closure(g, choices, Range(g.root_eclasses)) \subseteq DOMAIN choices

\* C16: for every result that passes check, on non-negative costs, the DAG
\* cost at the roots is at most the tree cost at the roots (costs are whole
\* numbers here, so the allowance of 1e-5 admits no excess), with repeated
\* roots and repeated children included.
C16_DagCostAtMostTreeCost ==
  (dc.pc = "done" /\ dc.passes) => dc.dag <= dc.tree

\* The orders in which the classes of a finite set can be listed
Orderings(S) ==
  {s \in [1..Cardinality(S) -> S] : \A i, j \in DOMAIN s : s[i] = s[j] => i = j}

\* C17: for a result that is closed under children from the roots, dag_cost
\* returns the sum of the costs of the chosen nodes of the distinct classes
\* reachable from the roots through the choices, each class counted once
\* (the costs added in one of the orders of those classes), with repeated
\* roots and repeated children included.
C17_DagCostCountsEachClassOnce ==
  (dc.pc \in {"returned", "done"} /\ ClosedFromRoots(egraph, dc.choices)) =>
    \E order \in Orderings(Closure(egraph, dc.choices, Range(egraph.root_eclasses))) :
      dc.dag = sum_costs([i \in DOMAIN order |->
                            egraph.nodes[dc.choices[order[i]]].cost])

\* C17 witness: dag_cost has returned on a closed result with a repeated
\* root, a chosen node that lists a class twice, a class popped after it
\* was costed, and a cost above zero.
C17_Witness ==
  /\ dc.pc = "done"
  /\ ClosedFromRoots(egraph, dc.choices)
  /\ Len(egraph.root_eclasses) > Cardinality(Range(egraph.root_eclasses))
  /\ \E c \in Closure(egraph, dc.choices, Range(egraph.root_eclasses)) :
       egraph.nodes[dc.choices[c]].children = <<3, 3>>
  /\ dc.steps > Len(dc.costs)
  /\ \A i \in 1..Len(dc.costs) : dc.costs[i][2] > 0

C20_LeafWinsTie ==
  bu.pc = "done" =>
    \A leaf, inner \in DOMAIN egraph.nodes :
      (/\ egraph.nodes[leaf].eclass = egraph.nodes[inner].eclass
       /\ Len(ClassNodes(egraph, egraph.nodes[leaf].eclass)) = 2
       /\ egraph.nodes[leaf].cost = egraph.nodes[inner].cost
       /\ egraph.nodes[leaf].children = <<>>
       /\ Len(egraph.nodes[inner].children) = 1
       /\ egraph.nodes[inner].children[1] # egraph.nodes[inner].eclass) =>
        bu.result[egraph.nodes[leaf].eclass] = leaf

(***************************************************************************)
(* The worklist extractors as they are scheduled in the source: the        *)
(* UniqueQueue de-duplicates and pop takes the front.  wl.extractor names  *)
(* BottomUpAnalysisExtractor ("bottom-up-analysis") or the extractor of    *)
(* src/src/extract/greedy_dag_1.rs ("greedy-dag-1"), whose costs map a     *)
(* class to its CostSet.                                                   *)
(***************************************************************************)
\* greedy_dag_1.rs, FasterGreedyDagExtractor::calculate_cost_set: a leaf has
\* an empty cost map, and a node over its own class is found by `contains`
calculate_cost_set_1(g, node_id, costs, best_cost) ==
  LET node == g.nodes[node_id]
      cid == nid_to_cid(g, node_id)
      cc == childrens_classes(g, node_id)
  IN IF node.children = <<>>
     THEN CostSet(EmptyMap, node.cost, node_id)
     ELSE IF Len(cc) = 1 /\ CostAdd(node.cost, costs[cc[1]].total) > best_cost
     THEN CostSet(EmptyMap, INFINITY, node_id)
     ELSE LET biggest == id_of_biggest(cc, costs)
              merged == insert_others(costs[biggest].costs, cc, biggest, costs)
              contains == cid \in DOMAIN merged
              result == Put(merged, cid, node.cost)
          IN CostSet(result, result_cost(contains, result), node_id)

\* The e-graphs of the worklist runs: a leaf class 1, a class 2 of two
\* nodes, and a class 3; a node is a leaf, is over class 2 (its own class,
\* for a node of class 2), or over classes 1 and 2.
WorklistShapes ==
  { [lay |-> <<1, 2, 2, 3>>, roots |-> <<3>>,
     lists |-> {<<>>, <<2>>, <<1, 2>>}, ops |-> Ops, max_cost |-> 1] }

WorklistExtractors == {"bottom-up-analysis", "greedy-dag-1"}

\* The state on entry to the while loop (bottom_up_analysis.rs:8-35,
\* greedy_dag_1.rs:100-127)
WLFifoInit(g, extractor) ==
  [pc |-> "loop", extractor |-> extractor, dedup |-> TRUE,
   pending |-> WLInit(g, TRUE).pending,
   result |-> EmptyMap, costs |-> EmptyMap]

\* bottom_up_analysis.rs:37-55: one iteration of
\* `while let Some(node_id) = analysis_pending.pop()`
WLAnalysisStep ==
  /\ wl.pc = "loop"
  /\ wl.extractor = "bottom-up-analysis"
  /\ wl.pending.queue # <<>>
  /\ LET node_id == wl.pending.queue[1]
         q == uq_pop(wl.pending, 1)
         class_id == nid_to_cid(egraph, node_id)
         node == egraph.nodes[node_id]
         prev_cost == CostOf(wl.costs, class_id)
         cost == node_sum_cost(egraph, node, wl.costs)
     IN IF Range(node.children) \subseteq DOMAIN wl.result
        THEN IF cost < prev_cost
             THEN wl' = [wl EXCEPT
                           !.result = choose(wl.result, class_id, node_id),
                           !.costs = Put(wl.costs, class_id, cost),
                           !.pending = uq_extend(q, parents(egraph)[class_id], TRUE)]
             ELSE wl' = [wl EXCEPT !.pending = q]
        ELSE wl' = [wl EXCEPT !.pending = uq_insert(q, node_id, TRUE)]
  /\ UNCHANGED notWL

\* greedy_dag_1.rs:129-147: one iteration of the while loop
WLGreedyStep ==
  /\ wl.pc = "loop"
  /\ wl.extractor = "greedy-dag-1"
  /\ wl.pending.queue # <<>>
  /\ LET node_id == wl.pending.queue[1]
         q == uq_pop(wl.pending, 1)
         class_id == nid_to_cid(egraph, node_id)
         node == egraph.nodes[node_id]
         prev_cost == IF class_id \in DOMAIN wl.costs
                      THEN wl.costs[class_id].total ELSE INFINITY
         cost_set == calculate_cost_set_1(egraph, node_id, wl.costs, prev_cost)
     IN IF Range(node.children) \subseteq DOMAIN wl.costs
        THEN IF cost_set.total < prev_cost
             THEN wl' = [wl EXCEPT
                           !.costs = Put(wl.costs, class_id, cost_set),
                           !.pending = uq_extend(q, parents(egraph)[class_id], TRUE)]
             ELSE wl' = [wl EXCEPT !.pending = q]
        ELSE wl' = [wl EXCEPT !.pending = uq_insert(q, node_id, TRUE)]
  /\ UNCHANGED notWL

\* The queue is empty: bottom_up_analysis.rs:57 returns result,
\* greedy_dag_1.rs:157-162 builds it from the choice of every CostSet
WLFifoReturn ==
  /\ wl.pc = "loop"
  /\ wl.pending.queue = <<>>
  /\ wl' = [wl EXCEPT
              !.pc = "done",
              !.result = IF wl.extractor = "greedy-dag-1"
                         THEN [c \in DOMAIN wl.costs |-> wl.costs[c].choice]
                         ELSE wl.result]
  /\ UNCHANGED notWL

InitWLFifo ==
  /\ trie = Idle
  /\ InitEGraph(WorklistShapes)
  /\ \E extractor \in WorklistExtractors : wl = WLFifoInit(egraph, extractor)
  /\ bu = Idle
  /\ fgd = Idle
  /\ td = Idle
  /\ ilp = Idle
  /\ driver = Idle
  /\ topk = Idle
  /\ beam = Idle
  /\ dc = Idle

NextWLFifo == WLAnalysisStep \/ WLGreedyStep \/ WLFifoReturn

SpecWLFifo == InitWLFifo /\ [][NextWLFifo]_vars

\* The loop of the running extractor keeps taking its next iteration
SpecWLFifoFair == SpecWLFifo /\ WF_vars(NextWLFifo)

\* C21: every run of the two worklist extractors on the de-duplicating
\* queue ends (the pending queue becomes empty and the result is returned),
\* on every e-graph, those where a class without an acyclic derivation is a
\* child next to a leaf class included.
C21_WorklistTerminates == <>(wl.pc = "done")

(***************************************************************************)
(* The beam iteration with its workers and its shuffle.  candidates()      *)
(* shuffles the roots it is given (mod.rs:255-256), so a recompute_node    *)
(* call takes the child classes in any order; the calls of one pass run on *)
(* the rayon pool, each reading the beams (read locks) before it merges    *)
(* its candidates into the beam of its class (write lock).  A call is two  *)
(* steps here: BeamRead, where the call reads the beams it needs, and      *)
(* BeamMerge, where it merges; the reads of one call are taken together.   *)
(* beam.running maps the NodeId of a call between its two steps to the     *)
(* candidates it has assembled.  beam.owed_now holds the nodes over a      *)
(* class whose beam changed in the current pass, beam.owed those over a    *)
(* class whose beam changed in an earlier pass and not recomputed in a     *)
(* later pass yet; beam.skipped the nodes that returned NotReady.          *)
(***************************************************************************)
\* Most calls of recompute_node between their read and their merge
MaxWorkers == 2

\* roots.shuffle: the orders a slice may be put in
Shuffles(roots) ==
  {p \in [1..Len(roots) -> Range(roots)] : Range(p) = Range(roots)}

\* BeamExtract::node_candidates, the shuffle of candidates() giving the
\* child classes in the order `roots`
node_candidates_shuffled(g, memo, BEAM, nid, cutoff, roots) ==
  LET cid == nid_to_cid(g, nid)
      cost == g.nodes[nid].cost
      children == fast_children(g, nid)
      below == beam_candidates(g, memo, BEAM, roots, cid, INFINITY)
  IN IF cost >= cutoff THEN TopK_new
     ELSE IF children = <<>> THEN TopK_singleton(Candidate_leaf(cid, nid, cost))
     ELSE IF cid \in Range(children) THEN TopK_new
     ELSE [j \in 1..Len(below) |-> Candidate_insert(below[j], cid, nid, cost)]

\* BeamExtract::recompute_node with the child classes shuffled to `roots`
recompute_node_shuffled(g, memo, BEAM, nid, roots) ==
  LET cid == nid_to_cid(g, nid)
      ready == \A child \in Range(fast_children(g, nid)) : memo[child] # <<>>
      cutoff == cutoff_cost(memo[cid], BEAM)
      merged == TopK_merge(memo[cid],
                  node_candidates_shuffled(g, memo, BEAM, nid, cutoff, roots), BEAM)
  IN IF ~ready THEN [memo |-> memo, status |-> "NotReady"]
     ELSE [memo |-> [memo EXCEPT ![cid] = merged.items],
           status |-> IF merged.kept THEN "Updated" ELSE "Unchanged"]

\* iterate up to the first pass, no call running
BeamParInit(g, BEAM) ==
  LET st == BeamInit(g, BEAM)
  IN [pc |-> st.pc, BEAM |-> BEAM, memo |-> st.memo, worklist |-> st.worklist,
      next_workset |-> {}, changed_any |-> FALSE, changed_global |-> FALSE,
      running |-> EmptyMap, owed_now |-> {}, owed |-> {}, skipped |-> {}]

\* recompute_node (mod.rs:172-191): the call for nid starts in the current
\* pass, finds a child beam empty and returns NotReady, or assembles its
\* candidates from the beams as they are now
beam_read(g, st, nid, roots) ==
  LET cid == nid_to_cid(g, nid)
      ready == \A child \in Range(fast_children(g, nid)) : st.memo[child] # <<>>
      cutoff == cutoff_cost(st.memo[cid], st.BEAM)
      started == [st EXCEPT !.worklist = @ \ {nid}, !.owed = @ \ {nid}]
  IN IF ~ready THEN [started EXCEPT !.skipped = @ \cup {nid}]
     ELSE [started EXCEPT
             !.running = Put(@, nid,
                node_candidates_shuffled(g, st.memo, st.BEAM, nid, cutoff, roots))]

\* recompute_node (mod.rs:194-200) and the closure of for_each
\* (mod.rs:147-152): the candidates are merged into the beam of the class
\* as it is now, and Updated queues the parents for the next pass
beam_merge(g, st, nid) ==
  LET cid == nid_to_cid(g, nid)
      merged == TopK_merge(st.memo[cid], st.running[nid], st.BEAM)
      changed == merged.items # st.memo[cid]
  IN [st EXCEPT
        !.memo = [@ EXCEPT ![cid] = merged.items],
        !.running = [n \in DOMAIN st.running \ {nid} |-> st.running[n]],
        !.changed_any = @ \/ merged.kept,
        !.next_workset = IF merged.kept THEN @ \cup fast_parents(g, cid) ELSE @,
        !.owed_now = IF changed THEN @ \cup fast_parents(g, cid) ELSE @]

\* the end of a pass with the owed nodes carried over
beam_par_end_pass(g, st) ==
  LET next == beam_end_pass(g, st)
  IN [next EXCEPT !.owed = st.owed \cup st.owed_now, !.owed_now = {}]

\* The e-graphs of the runs with workers.  SharedShape: class 2 has a leaf
\* and a node that may be over the leaf class 1; the nodes of classes 3 and
\* 4 are over classes 1, 2 (and 3); the root class 5 is over 3 and 4.
\* CyclicShape: the nodes of classes 1 and 2 may be over each other's class
\* or their own, and the root class 3 is over both.
SharedShape ==
  [lay |-> <<1, 2, 2, 3, 4, 5>>, roots |-> <<5>>,
   lists |-> << {<<>>}, {<<>>}, {<<1>>, <<>>}, {<<2>>, <<1, 2>>},
                {<<2>>, <<1, 2>>, <<3>>}, {<<3, 4>>} >>,
   costs |-> << {0, 1}, {0, 1, 2}, {0, 1}, {0}, {0}, {0} >>]

CyclicShape ==
  [lay |-> <<1, 1, 2, 2, 3>>, roots |-> <<3>>,
   lists |-> << {<<>>, <<2>>}, {<<2>>, <<1>>}, {<<>>, <<1>>}, {<<1>>, <<2, 1>>},
                {<<1, 2>>} >>,
   costs |-> << {0, 1}, {0}, {0, 1}, {0}, {0} >>]

BeamParShapes == {SharedShape, CyclicShape}

\* A call of recompute_node starts on a free worker
BeamRead ==
  /\ beam.pc = "pass"
  /\ Cardinality(DOMAIN beam.running) < MaxWorkers
  /\ \E nid \in beam.worklist :
       \E roots \in Shuffles(fast_children(egraph, nid)) :
         beam' = beam_read(egraph, beam, nid, roots)
  /\ UNCHANGED notBeam

\* A running call merges its candidates and returns
BeamMerge ==
  /\ beam.pc = "pass"
  /\ \E nid \in DOMAIN beam.running : beam' = beam_merge(egraph, beam, nid)
  /\ UNCHANGED notBeam

\* Every call of the pass has returned
BeamParEndPass ==
  /\ beam.pc = "pass"
  /\ beam.worklist = {}
  /\ DOMAIN beam.running = {}
  /\ beam' = beam_par_end_pass(egraph, beam)
  /\ UNCHANGED notBeam

InitBeamPar ==
  /\ trie = Idle
  /\ InitNodewise(BeamParShapes)
  /\ \E BEAM \in 1..MaxWidth : beam = BeamParInit(egraph, BEAM)
  /\ bu = Idle
  /\ fgd = Idle
  /\ td = Idle
  /\ wl = Idle
  /\ ilp = Idle
  /\ driver = Idle
  /\ topk = Idle
  /\ dc = Idle

NextBeamPar == BeamRead \/ BeamMerge \/ BeamParEndPass

SpecBeamPar == InitBeamPar /\ [][NextBeamPar]_vars

\* The choices of a candidate as a map from class to node
Candidate_nodes(c) ==
  [cid \in {c.choices[i][1] : i \in DOMAIN c.choices} |->
     c.choices[CHOOSE i \in DOMAIN c.choices : c.choices[i][1] = cid][2]]

\* C22: at every moment of the beam iteration, whatever the interleaving of
\* the workers and the shuffles, every candidate in the beam of a class c
\* contains c, contains the child classes of each node it chooses, and has
\* no cycle in its choice graph.
C22_BeamCandidatesValid ==
  beam.pc \in {"pass", "done"} =>
    \A c \in DOMAIN beam.memo :
      \A i \in DOMAIN beam.memo[c] :
        LET choices == Candidate_nodes(beam.memo[c][i])
        IN /\ c \in DOMAIN choices
           /\ ChildrenClosed(egraph, choices)
           /\ Acyclic(egraph, choices)

\* C23: when iterate returns, no node is still owed a recomputation: every
\* node over a class whose beam changed in some pass has started a
\* recompute_node call in a later pass.
C23_ParentsRecomputedLater ==
  beam.pc = "done" => beam.owed \cup beam.owed_now = {}

\* C24: when iterate returns, recompute_node on any node, with its child
\* classes in any order, returns Unchanged or NotReady.
C24_StableAtReturn ==
  beam.pc = "done" =>
    \A nid \in all_nodes(egraph) :
      \A roots \in Shuffles(fast_children(egraph, nid)) :
        recompute_node_shuffled(egraph, beam.memo, beam.BEAM, nid, roots).status
          # "Updated"

\* C22 witness: iterate has returned on an e-graph where a node of class 1
\* is over class 2 and a node of class 2 is over class 1, and a beam holds
\* two candidates of three classes, one of them choosing such a node.
C22_Witness ==
  /\ beam.pc = "done"
  /\ DOMAIN beam.running = {}
  /\ \E n, m \in all_nodes(egraph) :
       /\ nid_to_cid(egraph, n) # nid_to_cid(egraph, m)
       /\ nid_to_cid(egraph, m) \in Range(egraph.nodes[n].children)
       /\ nid_to_cid(egraph, n) \in Range(egraph.nodes[m].children)
       /\ \E c \in DOMAIN beam.memo :
            /\ Len(beam.memo[c]) = 2
            /\ \A i \in 1..2 : Len(beam.memo[c][i].choices) = 3
            /\ \E i \in 1..2 :
                 n \in Range(Candidate_nodes(beam.memo[c][i]))

\* C23 witness: iterate has returned, and a node with two child classes
\* that returned NotReady in some pass has all its child beams and the beam
\* of its class filled, with a candidate that chooses the node.
C23_Witness ==
  /\ beam.pc = "done"
  /\ \E nid \in beam.skipped :
       /\ Len(fast_children(egraph, nid)) = 2
       /\ \A child \in Range(fast_children(egraph, nid)) : beam.memo[child] # <<>>
       /\ \E i \in DOMAIN beam.memo[nid_to_cid(egraph, nid)] :
            nid \in Range(Candidate_nodes(beam.memo[nid_to_cid(egraph, nid)][i]))

(***************************************************************************)
(* Claims about the constraints of the ILP extractors.                     *)
(***************************************************************************)
\* The selection s takes, for the k-th class of the cycle, a node that has
\* the next class of the cycle (the first, after the last) among its
\* children's classes
edge_selected(v, cycle, s, k) ==
  LET c == cycle[k]
      next == cycle[(k % Len(cycle)) + 1]
  IN s[c] # 0 /\ next \in Range(v.at[c].childrens_classes[s[c]])

\* C25: for every cycle handed to block_cycle and every selection of at
\* most one node per class, the rows block_cycle adds are violated exactly
\* when the selection takes, for every class of the cycle, a node with the
\* next class among its children; the selection in which the cycles were
\* just found violates them, and no selection with an acyclic choice graph
\* does.
C25_BlockCycleExact ==
  (ilp.pc # "idle" /\ ilp.blocked # {}) =>
    /\ \A cycle \in ilp.blocked : \A s \in Selections(ilp.vars) :
         (~block_cycle(ilp.vars, cycle, s))
           <=> (\A k \in DOMAIN cycle : edge_selected(ilp.vars, cycle, s, k))
    /\ (ilp.pc = "solve" /\ ilp.status = "Finished") =>
         \A s \in Selections(ilp.vars) :
           result_of(ilp.vars, s) = ilp.result =>
             \E cycle \in ilp.blocked : ~block_cycle(ilp.vars, cycle, s)
    /\ \A s \in Selections(ilp.vars) :
         SelectionAcyclic(ilp.vars, s) =>
           \A cycle \in ilp.blocked : block_cycle(ilp.vars, cycle, s)

\* C25 witness: a solve has returned a selection with a cycle over two
\* classes, the cycle was handed to block_cycle and the loop is back at
\* solve, with a selection left that takes a node in both classes of the
\* cycle and satisfies the new rows.
C25_Witness ==
  /\ ilp.pc = "solve"
  /\ ilp.status = "Finished"
  /\ ilp.solves > 0
  /\ \E cycle \in ilp.blocked :
       /\ Len(cycle) = 2
       /\ \E s \in Selections(ilp.vars) :
            /\ result_of(ilp.vars, s) = ilp.result
            /\ ~block_cycle(ilp.vars, cycle, s)
       /\ \E s \in Selections(ilp.vars) :
            /\ \A k \in DOMAIN cycle : s[cycle[k]] # 0
            /\ block_cycle(ilp.vars, cycle, s)

\* A selection in which every child class of a selected node has a
\* selected node
children_closed(v, s) ==
  \A c \in Range(v.keys) : \A cc \in selected_children(v, s, c) :
    cc \in Range(v.keys) /\ s[cc] # 0

\* The rank rows of construct_problem for given ranks, one per node and
\* child, selected or not
rank_rows(v, s, rank) ==
  \A c \in Range(v.keys) : \A i \in DOMAIN v.at[c].members :
    \A cc \in Range(v.at[c].childrens_classes[i]) :
      rank_row(v, s, rank, c, i, cc)

\* C26: every selection of at most one node per class that is closed under
\* children and has an acyclic choice graph satisfies the rows of
\* prior_block (M = |C| + 1) for some levels within 0..|C|, and the rank
\* rows of construct_problem (M = |C|) for some ranks within 0..|C|, the
\* rows of the nodes it does not select included.
C26_LevelsExistForAcyclic ==
  /\ (/\ ilp.pc = "solve"
      /\ ilp.extractor = "FasterCbcExtractor"
      /\ ilp.config.prior_block_cycles) =>
       \A s \in Selections(ilp.vars) :
         (children_closed(ilp.vars, s) /\ SelectionAcyclic(ilp.vars, s))
           => prior_block(ilp.vars, ilp.config, s)
  /\ (ilp.pc = "solve" /\ ilp.extractor = "GoodExtractor") =>
       \A s \in Selections(ilp.vars) :
         (children_closed(ilp.vars, s) /\ SelectionAcyclic(ilp.vars, s))
           => \E rank \in Levels(ilp.vars) : rank_rows(ilp.vars, s, rank)

\* C26 witness: prior_block has added its rows for vars in which an
\* acyclic closed selection takes a node with a child in one class and
\* leaves out a node of the child's class that points back at that class,
\* so that a row of an unselected node runs against the levels.
C26_Witness ==
  /\ ilp.pc = "solve"
  /\ ilp.extractor = "FasterCbcExtractor"
  /\ ilp.config.prior_block_cycles
  /\ \E s \in Selections(ilp.vars) :
       /\ children_closed(ilp.vars, s)
       /\ SelectionAcyclic(ilp.vars, s)
       /\ prior_block(ilp.vars, ilp.config, s)
       /\ \E c \in Range(ilp.vars.keys) : \E cc \in selected_children(ilp.vars, s, c) :
            \E i \in DOMAIN ilp.vars.at[cc].members :
              /\ i # s[cc]
              /\ c \in Range(ilp.vars.at[cc].childrens_classes[i])

(***************************************************************************)
(* The faster ILP extractor on e-graphs with costs as large as the         *)
(* significand, where the sums and differences of pull_up_costs are        *)
(* rounded.  Class 1 is the root and the first class, so that the loop     *)
(* reading the solution and dag_cost add the classes up in the same order. *)
(***************************************************************************)
PullUpShapes ==
  { [lay |-> <<1, 2, 2, 3>>, roots |-> <<1>>,
     lists |-> << {<<2>>, <<2, 3>>}, {<<3>>}, {<<>>, <<3>>}, {<<>>} >>,
     costs |-> << {0, Significand}, {0, 3}, {0, 3, 5}, {0, 3, 5} >>] }

\* The Configs of the runs: the default, and pull_up_costs alone.
PullUpConfigs ==
  { ConfigDefault, [ConfigNone EXCEPT !.pull_up_costs = TRUE] }

InitILPCosts ==
  /\ trie = Idle
  /\ InitNodewise(PullUpShapes)
  /\ \E c \in PullUpConfigs :
       ilp = ILPInit([extractor |-> "FasterCbcExtractor", config |-> c])
  /\ bu = Idle
  /\ fgd = Idle
  /\ td = Idle
  /\ wl = Idle
  /\ driver = Idle
  /\ topk = Idle
  /\ beam = Idle
  /\ dc = Idle

NextILPCosts ==
  \/ ILPBuild
  \/ ILPNotFinished
  \/ ILPSolved

SpecILPCosts == InitILPCosts /\ [][NextILPCosts]_vars

\* C27: after pull_up_costs, for every optimal selection with an acyclic
\* choice graph that the solve may return, the sum of the adjusted costs
\* of its selected nodes equals the dag_cost of the result with the node
\* costs of the e-graph, and the assertion of that equality in extract
\* does not fail.
C27_PullUpPreservesCost ==
  /\ (ilp.pc = "solve" /\ ilp.config.pull_up_costs) =>
       \A s \in Optimal(ilp.vars, egraph.root_eclasses, ilp.config, ilp.blocked) :
         (/\ SelectionAcyclic(ilp.vars, s)
          /\ ~dag_cost_panics(egraph, result_of(ilp.vars, s), egraph.root_eclasses)) =>
           cost_of(ilp.vars, s)
             = dag_cost(egraph, result_of(ilp.vars, s), egraph.root_eclasses)
  /\ ilp.config.pull_up_costs => ilp.panic # "assert dag_cost = cost"

(***************************************************************************)
(* The preprocessing of extract (faster_ilp_cbc.rs:181-189), call by call: *)
(* seven steps, twice over, each a no-op when its Config switch is off.    *)
(* ilp.pos counts the calls made.                                          *)
(***************************************************************************)
\* A chain of five classes under the root, and a shape of three classes
\* with loops, classes over each other and a class of two nodes.
PreShapes ==
  { [lay |-> <<1, 2, 3, 4, 5>>, roots |-> <<1>>,
     lists |-> << {<<2>>}, {<<3>>}, {<<4>>}, {<<5>>}, {<<>>} >>,
     costs |-> << {0, 1}, {0, 1}, {0, 1}, {0, 1}, {0, 1} >>],
    [lay |-> <<1, 2, 2, 3>>, roots |-> <<1>>,
     lists |-> << {<<2>>, <<2, 3>>}, {<<>>, <<3>>, <<2>>}, {<<3>>, <<1>>}, {<<>>, <<2>>} >>,
     costs |-> << {0, 1}, {0, 1}, {0, 1}, {0, 1} >>] }

\* The switches of the seven steps, in the order of the calls
StepSwitches ==
  << "remove_self_loops", "remove_high_cost_nodes", "remove_more_expensive_nodes",
     "remove_more_expensive_subsumed_nodes", "remove_unreachable_classes",
     "pull_up_single_parent", "pull_up_costs" >>

\* The Configs of the preprocessing runs: each step alone, every step, and
\* the default.
PreConfigs ==
  {[ConfigNone EXCEPT ![StepSwitches[k]] = TRUE] : k \in DOMAIN StepSwitches}
    \cup {ConfigCbc, ConfigDefault}

PreInit(config) ==
  [pc |-> "start", config |-> config, pos |-> 0,
   initial_result |-> EmptyMap, initial_result_cost |-> 0,
   vars |-> [keys |-> <<>>, at |-> EmptyMap, panic |-> FALSE]]

\* The k-th call of a round on vars v
pre_step(k, v, st, g) ==
  CASE k = 1 -> remove_with_loops(v, g.root_eclasses, st.config)
    [] k = 2 -> remove_high_cost(v, st.initial_result_cost, st.config)
    [] k = 3 -> remove_more_expensive_nodes(v, st.initial_result, g, st.config)
    [] k = 4 -> remove_more_expensive_subsumed_nodes(v, st.config)
    [] k = 5 -> remove_unreachable_classes(v, g.root_eclasses, st.config)
    [] k = 6 -> pull_up_with_single_parent(v, g.root_eclasses, st.config)
    [] k = 7 -> pull_up_costs(v, g.root_eclasses, st.config)

\* The step the next call makes, and the step the last call made
next_step(st) == (st.pos % 7) + 1

last_step(st) == ((st.pos - 1) % 7) + 1

\* The state after the next call
pre_call(st, g) ==
  [st EXCEPT !.vars = pre_step(next_step(st), st.vars, st, g),
             !.pos = st.pos + 1,
             !.pc = IF st.pos + 1 = 14 THEN "built" ELSE "preprocess"]

\* extract up to the preprocessing: vars, the warm start and its cost
PreStart ==
  /\ ilp.pc = "start"
  /\ LET initial_result == GreedyDagExtract(egraph)
     IN IF dag_cost_panics(egraph, initial_result, egraph.root_eclasses)
        THEN ilp' = [ilp EXCEPT !.pc = "panic", !.initial_result = initial_result]
        ELSE ilp' = [ilp EXCEPT !.pc = "preprocess",
                                !.initial_result = initial_result,
                                !.initial_result_cost =
                                  dag_cost(egraph, initial_result, egraph.root_eclasses),
                                !.vars = ilp_vars(egraph)]
  /\ UNCHANGED notILP

PreRemoveWithLoops ==
  /\ ilp.pc = "preprocess" /\ next_step(ilp) = 1
  /\ ilp' = pre_call(ilp, egraph)
  /\ UNCHANGED notILP

PreRemoveHighCost ==
  /\ ilp.pc = "preprocess" /\ next_step(ilp) = 2
  /\ ilp' = pre_call(ilp, egraph)
  /\ UNCHANGED notILP

PreRemoveMoreExpensiveNodes ==
  /\ ilp.pc = "preprocess" /\ next_step(ilp) = 3
  /\ ilp' = pre_call(ilp, egraph)
  /\ UNCHANGED notILP

PreRemoveMoreExpensiveSubsumedNodes ==
  /\ ilp.pc = "preprocess" /\ next_step(ilp) = 4
  /\ ilp' = pre_call(ilp, egraph)
  /\ UNCHANGED notILP

PreRemoveUnreachableClasses ==
  /\ ilp.pc = "preprocess" /\ next_step(ilp) = 5
  /\ ilp' = pre_call(ilp, egraph)
  /\ UNCHANGED notILP

PrePullUpWithSingleParent ==
  /\ ilp.pc = "preprocess" /\ next_step(ilp) = 6
  /\ ilp' = pre_call(ilp, egraph)
  /\ UNCHANGED notILP

PrePullUpCosts ==
  /\ ilp.pc = "preprocess" /\ next_step(ilp) = 7
  /\ ilp' = pre_call(ilp, egraph)
  /\ UNCHANGED notILP

InitPre ==
  /\ trie = Idle
  /\ InitNodewise(PreShapes)
  /\ \E c \in PreConfigs : ilp = PreInit(c)
  /\ bu = Idle
  /\ fgd = Idle
  /\ td = Idle
  /\ wl = Idle
  /\ driver = Idle
  /\ topk = Idle
  /\ beam = Idle
  /\ dc = Idle

NextPre ==
  \/ PreStart
  \/ PreRemoveWithLoops
  \/ PreRemoveHighCost
  \/ PreRemoveMoreExpensiveNodes
  \/ PreRemoveMoreExpensiveSubsumedNodes
  \/ PreRemoveUnreachableClasses
  \/ PrePullUpWithSingleParent
  \/ PrePullUpCosts

SpecPre == InitPre /\ [][NextPre]_vars

\* The step the last call made changes nothing when it is called again.
last_step_idempotent(k) ==
  (ilp.pc \in {"preprocess", "built"} /\ ilp.pos >= 1 /\ last_step(ilp) = k) =>
    pre_step(k, ilp.vars, ilp, egraph) = ilp.vars

\* C28: each of the seven preprocessing steps is idempotent: called again
\* on the vars it has just returned, with the same roots, Config and warm
\* start, it leaves them as they are.
C28_StepsIdempotent == \A k \in 1..7 : last_step_idempotent(k)

(***************************************************************************)
(* val-trie (src/val-trie): the hash-array-mapped trie behind HashSet and  *)
(* HashMap.  An item is a record [key, val]; a set's items have val 0.     *)
(* A Chunk is a record [hash, len, agg, children], children a function     *)
(* from the slots that are not Null to [kind |-> "Leaf", leaf],            *)
(* [kind |-> "Collision", collision] or [kind |-> "Inner", inner].         *)
(* as_group is a function ag from keys to group elements.  Reference       *)
(* counts are not part of the state: Rc::ptr_eq is recorded for the two    *)
(* roots and taken as false below them, where the shared branch would be   *)
(* united with an equal one.                                               *)
(***************************************************************************)
BITS == 5

ARITY == 2^BITS

\* hash_value of the keys: keys 1 and 2 collide, key 3 shares their slot
\* at the first level, key 4 shares the slot of key 3 at two levels, key 5
\* has a slot of its own
HashOf == <<1, 1, 33, 1057, 2>>

Keys == DOMAIN HashOf

hash_value(k) == HashOf[k]

mask(hash, bits) == (hash \div (2^bits)) % ARITY

\* ^ on HashBits
RECURSIVE Xor(_, _)
Xor(a, b) ==
  IF a = 0 THEN b
  ELSE IF b = 0 THEN a
  ELSE ((a + b) % 2) + 2 * Xor(a \div 2, b \div 2)

\* The group of the aggregates: AddSum, wrapping addition, on a word of
\* GroupBits bits
GroupBits == 3

GroupModulus == 2^GroupBits

Group_add(a, b) == (a + b) % GroupModulus

Group_sub(a, b) == (a + GroupModulus - b) % GroupModulus

\* Chunk::default
Chunk_default == [hash |-> 0, len |-> 0, agg |-> 0, children |-> EmptyMap]

get_kind(c, i) == IF i \in DOMAIN c.children THEN c.children[i].kind ELSE "Null"

LeafChild(t) == [kind |-> "Leaf", leaf |-> t]

CollisionChild(n) == [kind |-> "Collision", collision |-> n]

InnerChild(ch) == [kind |-> "Inner", inner |-> ch]

remove_summary(c, hc, g) == [c EXCEPT !.hash = Xor(@, hc), !.agg = Group_sub(@, g)]

\* add_summary without the group element
add_summary_hash_only(c, hc, g) == [c EXCEPT !.hash = Xor(@, hc)]

add_summary(c, hc, g) == [c EXCEPT !.hash = Xor(@, hc), !.agg = Group_add(@, g)]

add_leaf(c, i, leaf, hash, g) ==
  [add_summary(c, hash, g) EXCEPT !.children = Put(@, i, LeafChild(leaf))]

add_collision(c, i, collision) ==
  [add_summary(c, collision.hash, collision.agg) EXCEPT
     !.children = Put(@, i, CollisionChild(collision))]

add_inner(c, i, inner) ==
  [add_summary(c, inner.hash, inner.agg) EXCEPT !.children = Put(@, i, InnerChild(inner))]

\* replace_leaf_chunk: the leaf of slot i gives way to the chunk `inner`
\* built from it; prev_hash is the hash the closure returns.
replace_leaf_chunk(c, i, inner, prev_hash, ag) ==
  LET summary == ag[c.children[i].leaf.key]
  IN [add_summary(remove_summary(c, prev_hash, summary), inner.hash, inner.agg)
        EXCEPT !.children[i] = InnerChild(inner)]

\* replace_collision_chunk
replace_collision_chunk(c, i, inner) ==
  LET collision == c.children[i].collision
  IN [add_summary(remove_summary(c, collision.hash, collision.agg), inner.hash, inner.agg)
        EXCEPT !.children[i] = InnerChild(inner)]

\* replace_collision_leaf
replace_collision_leaf(c, i, leaf, leaf_hash, new_summary) ==
  LET collision == c.children[i].collision
  IN [add_summary(remove_summary(c, collision.hash, collision.agg), leaf_hash, new_summary)
        EXCEPT !.children[i] = LeafChild(leaf)]

\* replace_leaf_collision
replace_leaf_collision(c, i, collision, leaf_hash, ag) ==
  LET prev_summary == ag[c.children[i].leaf.key]
  IN [add_summary(remove_summary(c, leaf_hash, prev_summary), collision.hash, collision.agg)
        EXCEPT !.children[i] = CollisionChild(collision)]

\* with_collision_mut: the collision node of slot i becomes `node`
with_collision_mut(c, i, node) ==
  LET prev == c.children[i].collision
  IN [add_summary(remove_summary(c, prev.hash, prev.agg), node.hash, node.agg)
        EXCEPT !.children[i] = CollisionChild(node)]

\* with_inner_mut: the chunk of slot i becomes `node`
with_inner_mut(c, i, node) ==
  LET prev == c.children[i].inner
  IN [add_summary(remove_summary(c, prev.hash, prev.agg), node.hash, node.agg)
        EXCEPT !.children[i] = InnerChild(node)]

\* The index of the item of data with the given key, 0 when there is none
position_of(data, key) ==
  IF \E j \in DOMAIN data : data[j].key = key
  THEN CHOOSE j \in DOMAIN data :
         data[j].key = key /\ \A l \in 1..(j - 1) : data[l].key # key
  ELSE 0

\* CollisionNode::push
CollisionNode_push(node, elt, g) ==
  [node EXCEPT !.data = Append(@, elt), !.agg = Group_add(@, g)]

\* CollisionNode::remove: swap_remove of the index
CollisionNode_remove(node, index, g) ==
  [node EXCEPT
     !.data = IF index = Len(node.data) THEN SubSeq(node.data, 1, Len(node.data) - 1)
              ELSE [j \in 1..(Len(node.data) - 1) |->
                      IF j = index THEN node.data[Len(node.data)] ELSE node.data[j]],
     !.agg = Group_sub(@, g)]

\* Chunk::insert: [chunk, res], res the item replaced, in a sequence of at
\* most one
RECURSIVE Chunk_insert(_, _, _, _, _)
Chunk_insert(c, elt, hash, bits, ag) ==
  LET child == mask(hash, bits)
      kind == get_kind(c, child)
      added(ch) == [chunk |-> [ch EXCEPT !.len = @ + 1], res |-> <<>>]
  IN CASE kind = "Null" -> added(add_leaf(c, child, elt, hash, ag[elt.key]))
       [] kind = "Leaf" ->
            LET candidate == c.children[child].leaf
                other_hash == hash_value(candidate.key)
                next_bits == bits + BITS
            IN IF elt.key = candidate.key
               THEN [chunk |-> [c EXCEPT !.children[child] = LeafChild(elt)],
                     res |-> <<candidate>>]
               ELSE IF other_hash = hash
               THEN added(replace_leaf_collision(c, child,
                            [hash |-> hash,
                             agg |-> Group_add(ag[candidate.key], ag[elt.key]),
                             data |-> <<candidate, elt>>],
                            hash, ag))
               ELSE added(replace_leaf_chunk(c, child,
                            Chunk_insert(
                              Chunk_insert(Chunk_default, candidate, other_hash,
                                           next_bits, ag).chunk,
                              elt, hash, next_bits, ag).chunk,
                            other_hash, ag))
       [] kind = "Collision" ->
            LET collision == c.children[child].collision
                at == position_of(collision.data, elt.key)
                next_bits == bits + BITS
            IN IF collision.hash = hash
               THEN IF at # 0
                    THEN [chunk |-> with_collision_mut(c, child,
                                      [collision EXCEPT !.data[at] = elt]),
                          res |-> <<collision.data[at]>>]
                    ELSE added(with_collision_mut(c, child,
                                 CollisionNode_push(collision, elt, ag[elt.key])))
               ELSE added(replace_collision_chunk(c, child,
                            Chunk_insert(
                              add_collision([Chunk_default EXCEPT
                                               !.len = Len(collision.data)],
                                            mask(collision.hash, next_bits), collision),
                              elt, hash, next_bits, ag).chunk))
       [] kind = "Inner" ->
            CHOOSE out \in
              { [chunk |-> [with_inner_mut(c, child, r.chunk) EXCEPT
                              !.len = @ + (IF r.res = <<>> THEN 1 ELSE 0)],
                 res |-> r.res] :
                r \in {Chunk_insert(c.children[child].inner, elt, hash,
                                    bits + BITS, ag)} } : TRUE

\* has_one_child
has_one_child(c) == Cardinality(DOMAIN c.children) = 1

\* replace_chunk_with_child: the only child of the chunk of slot i takes
\* its place, unless it is a chunk itself.
replace_chunk_with_child(c, i, child) ==
  LET grandchild == c.children[i].inner.children[child]
  IN IF grandchild.kind = "Inner" THEN c
     ELSE [c EXCEPT !.children[i] = grandchild]

\* Chunk::remove: [chunk, res]
RECURSIVE Chunk_remove(_, _, _, _, _)
Chunk_remove(c, key, hash, bits, ag) ==
  LET child == mask(hash, bits)
      kind == get_kind(c, child)
      none == [chunk |-> c, res |-> <<>>]
      removed(ch, t) == [chunk |-> [ch EXCEPT !.len = @ - 1], res |-> <<t>>]
  IN CASE kind = "Null" -> none
       [] kind = "Leaf" ->
            LET leaf == c.children[child].leaf
            IN IF leaf.key # key THEN none
               ELSE removed([remove_summary(c, hash, ag[leaf.key]) EXCEPT
                               !.children = Without(@, child)], leaf)
       [] kind = "Collision" ->
            LET collision == c.children[child].collision
                to_remove_ix == position_of(collision.data, key)
            IN IF collision.hash # hash \/ to_remove_ix = 0 THEN none
               ELSE LET to_remove == collision.data[to_remove_ix]
                        rest == CollisionNode_remove(collision, to_remove_ix,
                                                     ag[to_remove.key])
                    IN IF Len(collision.data) = 2
                       THEN removed(replace_collision_leaf(c, child, rest.data[1],
                                      collision.hash, ag[rest.data[1].key]), to_remove)
                       ELSE removed(with_collision_mut(c, child, rest), to_remove)
       [] kind = "Inner" ->
            CHOOSE out \in
              { LET updated == with_inner_mut(c, child, r.chunk)
                    promoted ==
                      IF has_one_child(r.chunk)
                      THEN replace_chunk_with_child(updated, child,
                             CHOOSE j \in DOMAIN r.chunk.children : TRUE)
                      ELSE updated
                IN [chunk |-> [promoted EXCEPT
                                 !.len = @ - (IF r.res = <<>> THEN 0 ELSE 1)],
                    res |-> r.res] :
                r \in {Chunk_remove(c.children[child].inner, key, hash,
                                    bits + BITS, ag)} } : TRUE

\* The items of data inserted one after the other with the same hash
RECURSIVE Chunk_insert_each(_, _, _, _, _)
Chunk_insert_each(c, data, hash, bits, ag) ==
  IF data = <<>> THEN c
  ELSE Chunk_insert_each(Chunk_insert(c, Head(data), hash, bits, ag).chunk,
                   Tail(data), hash, bits, ag)

\* The slots of a set, in ascending order
RECURSIVE slots_in_order(_)
slots_in_order(S) ==
  IF S = {} THEN <<>>
  ELSE LET i == CHOOSE j \in S : \A l \in S : j <= l
       IN <<i>> \o slots_in_order(S \ {i})

\* Chunk::union, and the body of its loop for slot i
RECURSIVE Chunk_union(_, _, _, _)
RECURSIVE union_slot(_, _, _, _, _)
union_slot(c, other, i, bits, ag) ==
  LET mine == get_kind(c, i)
      theirs == get_kind(other, i)
      next_bits == bits + BITS
  IN CASE theirs = "Null" -> c
       [] mine = "Null" /\ theirs = "Inner" ->
            LET inner == other.children[i].inner
            IN [add_inner(c, i, inner) EXCEPT !.len = @ + inner.len]
       [] mine = "Null" /\ theirs = "Collision" ->
            LET collision == other.children[i].collision
            IN [add_collision(c, i, collision) EXCEPT !.len = @ + Len(collision.data)]
       [] theirs = "Leaf" ->
            LET leaf == other.children[i].leaf
            IN Chunk_insert(c, leaf, hash_value(leaf.key), bits, ag).chunk
       [] mine # "Null" /\ theirs = "Collision" ->
            LET others == other.children[i].collision
            IN Chunk_insert_each(c, others.data, others.hash, bits, ag)
       [] mine = "Leaf" /\ theirs = "Inner" ->
            LET leaf == c.children[i].leaf
                hash == hash_value(leaf.key)
            IN CHOOSE out \in
                 { [replace_leaf_chunk(c, i, res, hash, ag) EXCEPT
                      !.len = @ + (res.len - 1)] :
                   res \in {Chunk_insert(other.children[i].inner, leaf, hash,
                                         next_bits, ag).chunk} } : TRUE
       [] mine = "Collision" /\ theirs = "Inner" ->
            LET collision == c.children[i].collision
            IN CHOOSE out \in
                 { [replace_collision_chunk(c, i, others) EXCEPT
                      !.len = (@ - Len(collision.data)) + others.len] :
                   others \in {Chunk_insert_each(other.children[i].inner, collision.data,
                                           collision.hash, next_bits, ag)} } : TRUE
       [] mine = "Inner" /\ theirs = "Inner" ->
            LET inner_chunk == c.children[i].inner
            IN CHOOSE out \in
                 { [with_inner_mut(c, i, united) EXCEPT
                      !.len = @ + (united.len - inner_chunk.len)] :
                   united \in {Chunk_union(inner_chunk, other.children[i].inner,
                                           next_bits, ag)} } : TRUE

RECURSIVE union_slots(_, _, _, _, _)
union_slots(c, other, slots, bits, ag) ==
  IF slots = <<>> THEN c
  ELSE CHOOSE out \in
         { union_slots(next, other, Tail(slots), bits, ag) :
           next \in {union_slot(c, other, Head(slots), bits, ag)} } : TRUE

Chunk_union(c, other, bits, ag) ==
  union_slots(c, other, slots_in_order(DOMAIN other.children), bits, ag)

\* Chunk::get: the item with the key, in a sequence of at most one
RECURSIVE Chunk_get(_, _, _, _)
Chunk_get(c, key, hash, bits) ==
  LET child == mask(hash, bits)
      kind == get_kind(c, child)
  IN CASE kind = "Null" -> <<>>
       [] kind = "Leaf" ->
            IF c.children[child].leaf.key = key THEN <<c.children[child].leaf>> ELSE <<>>
       [] kind = "Collision" ->
            LET collision == c.children[child].collision
                at == position_of(collision.data, key)
            IN IF collision.hash # hash \/ at = 0 THEN <<>> ELSE <<collision.data[at]>>
       [] kind = "Inner" -> Chunk_get(c.children[child].inner, key, hash, bits + BITS)

\* Chunk::for_each: the items in the order they are visited
RECURSIVE Chunk_for_each(_)
RECURSIVE for_each_slots(_, _)
for_each_slots(c, slots) ==
  IF slots = <<>> THEN <<>>
  ELSE LET child == c.children[Head(slots)]
           here == CASE child.kind = "Leaf" -> <<child.leaf>>
                     [] child.kind = "Collision" -> child.collision.data
                     [] child.kind = "Inner" -> Chunk_for_each(child.inner)
       IN here \o for_each_slots(c, Tail(slots))

Chunk_for_each(c) == for_each_slots(c, slots_in_order(DOMAIN c.children))

\* PartialEq of CollisionNode
CollisionNode_eq(l, r) ==
  /\ l.hash = r.hash
  /\ Len(l.data) = Len(r.data)
  /\ \A j \in DOMAIN l.data : \E k \in DOMAIN r.data : r.data[k] = l.data[j]

\* PartialEq of Chunk: hash, bs and len, then the children slot by slot
RECURSIVE Chunk_eq(_, _)
Chunk_eq(a, b) ==
  /\ a.hash = b.hash
  /\ DOMAIN a.children = DOMAIN b.children
  /\ \A i \in DOMAIN a.children : a.children[i].kind = b.children[i].kind
  /\ a.len = b.len
  /\ \A i \in DOMAIN a.children :
       CASE a.children[i].kind = "Leaf" -> a.children[i].leaf = b.children[i].leaf
         [] a.children[i].kind = "Collision" ->
              CollisionNode_eq(a.children[i].collision, b.children[i].collision)
         [] a.children[i].kind = "Inner" ->
              Chunk_eq(a.children[i].inner, b.children[i].inner)

(***************************************************************************)
(* HashSet (set/mod.rs): [len, node].                                      *)
(***************************************************************************)
\* Inline(t)
Inline(t) == [key |-> t, val |-> 0]

HashSet_default == [len |-> 0, node |-> Chunk_default]

\* insert_agg
HashSet_insert_agg(s, t, ag) ==
  LET r == Chunk_insert(s.node, Inline(t), hash_value(t), 0, ag)
  IN [len |-> s.len + (IF r.res = <<>> THEN 1 ELSE 0), node |-> r.chunk]

\* remove_agg
HashSet_remove_agg(s, t, ag) ==
  LET r == Chunk_remove(s.node, t, hash_value(t), 0, ag)
  IN [len |-> s.len - (IF r.res = <<>> THEN 0 ELSE 1), node |-> r.chunk]

\* union_agg; ptr_eq tells whether the two sets share their root
HashSet_union_agg(s, other, ptr_eq, ag) ==
  IF ptr_eq THEN s
  ELSE LET self == IF s.len < other.len THEN other ELSE s
           from == IF s.len < other.len THEN s ELSE other
           new_node == Chunk_union(self.node, from.node, 0, ag)
       IN [len |-> new_node.len, node |-> new_node]

\* The elements of a set, as for_each visits them
HashSet_elements(s) == {t.key : t \in Range(Chunk_for_each(s.node))}

\* The as_group of the runs: AddSum(*x)
as_group == [k \in Keys |-> k % GroupModulus]

\* The sum in the group of as_group over a set of elements
RECURSIVE group_sum(_, _)
group_sum(ag, S) ==
  IF S = {} THEN 0
  ELSE LET x == CHOOSE y \in S : TRUE IN Group_add(ag[x], group_sum(ag, S \ {x}))

\* Two sets, `set` and `to_union`, as in inc_sum: inserts and removes on
\* either, set.union_agg(&to_union), and to_union = set.clone().
SetInit ==
  [pc |-> "set", set |-> HashSet_default, to_union |-> HashSet_default,
   shared |-> FALSE, last |-> [op |-> "default", common |-> 0, added |-> 0]]

notTrie == <<egraph, bu, fgd, td, wl, ilp, driver, topk, beam, dc>>

SetInsert ==
  /\ trie.pc = "set"
  /\ \E t \in Keys :
       \/ trie' = [trie EXCEPT !.set = HashSet_insert_agg(@, t, as_group),
                               !.shared = FALSE,
                               !.last = [op |-> "insert", common |-> 0, added |-> 0]]
       \/ trie' = [trie EXCEPT !.to_union = HashSet_insert_agg(@, t, as_group),
                               !.shared = FALSE,
                               !.last = [op |-> "insert", common |-> 0, added |-> 0]]
  /\ UNCHANGED notTrie

SetRemove ==
  /\ trie.pc = "set"
  /\ \E t \in Keys :
       \/ trie' = [trie EXCEPT !.set = HashSet_remove_agg(@, t, as_group),
                               !.shared = FALSE,
                               !.last = [op |-> "remove", common |-> 0, added |-> 0]]
       \/ trie' = [trie EXCEPT !.to_union = HashSet_remove_agg(@, t, as_group),
                               !.shared = FALSE,
                               !.last = [op |-> "remove", common |-> 0, added |-> 0]]
  /\ UNCHANGED notTrie

SetUnion ==
  /\ trie.pc = "set"
  /\ trie' = [trie EXCEPT
       !.set = HashSet_union_agg(@, trie.to_union, trie.shared, as_group),
       !.last = [op |-> "union",
                 common |-> Cardinality(HashSet_elements(trie.set)
                                          \cap HashSet_elements(trie.to_union)),
                 added |-> Cardinality(HashSet_elements(trie.to_union)
                                         \ HashSet_elements(trie.set))]]
  /\ UNCHANGED notTrie

\* to_union = set.clone()
SetSave ==
  /\ trie.pc = "set"
  /\ trie' = [trie EXCEPT !.to_union = trie.set, !.shared = TRUE,
                          !.last = [op |-> "save", common |-> 0, added |-> 0]]
  /\ UNCHANGED notTrie

InitSet ==
  /\ trie = SetInit
  /\ egraph = Idle
  /\ bu = Idle
  /\ fgd = Idle
  /\ td = Idle
  /\ wl = Idle
  /\ ilp = Idle
  /\ driver = Idle
  /\ topk = Idle
  /\ beam = Idle
  /\ dc = Idle

NextSet ==
  \/ SetInsert
  \/ SetRemove
  \/ SetUnion
  \/ SetSave

SpecSet == InitSet /\ [][NextSet]_vars

\* A chunk holds a collision node, at any depth
RECURSIVE has_collision(_)
has_collision(c) ==
  \E i \in DOMAIN c.children :
    \/ c.children[i].kind = "Collision"
    \/ c.children[i].kind = "Inner" /\ has_collision(c.children[i].inner)

\* C29: after any sequence of insert_agg, remove_agg, union_agg and clone
\* with one as_group, agg() of a set is the sum in the group of as_group
\* over the distinct elements of the set.
C29_AggIsGroupSum ==
  trie.pc = "set" =>
    /\ trie.set.node.agg = group_sum(as_group, HashSet_elements(trie.set))
    /\ trie.to_union.node.agg = group_sum(as_group, HashSet_elements(trie.to_union))

\* C29 witness: a union_agg of two sets that do not share their root has
\* just added elements to a set that held some of the other's elements
\* already; the result has a collision node below an inner chunk, and the
\* sum of its elements has wrapped around.
C29_Witness ==
  /\ trie.pc = "set"
  /\ trie.last.op = "union"
  /\ ~trie.shared
  /\ trie.last.common > 0
  /\ trie.last.added > 0
  /\ \E i \in DOMAIN trie.set.node.children :
       /\ trie.set.node.children[i].kind = "Inner"
       /\ has_collision(trie.set.node.children[i].inner)
  /\ trie.set.len = Cardinality(Keys) - 1
  /\ trie.set.node.agg < Cardinality(Keys)

(***************************************************************************)
(* HashMap (map/mod.rs): [len, node], the items Pair(k, v), the group ().  *)
(***************************************************************************)
\* Greatest value of an entry
MaxValue == 2

Pair(k, v) == [key |-> k, val |-> v]

\* The keys of the maps: two of one hash, one sharing their first slot,
\* one in a slot of its own
MapKeys == {1, 2, 3, 5}

\* |_| ()
unit_group == [k \in Keys |-> 0]

HashMap_default == [len |-> 0, node |-> Chunk_default]

\* HashMap::insert
HashMap_insert(m, k, v) ==
  LET r == Chunk_insert(m.node, Pair(k, v), hash_value(k), 0, unit_group)
  IN [len |-> m.len + (IF r.res = <<>> THEN 1 ELSE 0), node |-> r.chunk]

\* HashMap::remove
HashMap_remove(m, k) ==
  LET r == Chunk_remove(m.node, k, hash_value(k), 0, unit_group)
  IN [len |-> m.len - (IF r.res = <<>> THEN 0 ELSE 1), node |-> r.chunk]

\* The map after m.insert(k, v) for every entry (k, v) of entries, in order
RECURSIVE insert_entries(_, _)
insert_entries(m, entries) ==
  IF entries = <<>> THEN m
  ELSE insert_entries(HashMap_insert(m, Head(entries).key, Head(entries).val),
                      Tail(entries))

\* HashMap::union; ptr_eq tells whether the two maps share their root
HashMap_union(m, other, ptr_eq) ==
  IF ptr_eq THEN m
  ELSE LET new_node == Chunk_union(m.node, other.node, 0, unit_group)
       IN [len |-> new_node.len, node |-> new_node]

\* HashMap::get: the value, in a sequence of at most one
HashMap_get(m, k) ==
  LET found == Chunk_get(m.node, k, hash_value(k), 0)
  IN IF found = <<>> THEN <<>> ELSE <<found[1].val>>

\* PartialEq of HashMap, for two maps that do not share their root
HashMap_eq(a, b) == a.len = b.len /\ Chunk_eq(a.node, b.node)

HashMap_keys(m) == {t.key : t \in Range(Chunk_for_each(m.node))}

\* Two maps, `map` and `other`: inserts and removes on either,
\* map.union(&other), and other = map.clone().  prev is the map before the
\* last union.
MapInit ==
  [pc |-> "map", map |-> HashMap_default, other |-> HashMap_default,
   shared |-> FALSE, last |-> "default", prev |-> HashMap_default]

MapInsert ==
  /\ trie.pc = "map"
  /\ \E k \in MapKeys : \E v \in 1..MaxValue :
       \/ trie' = [trie EXCEPT !.map = HashMap_insert(@, k, v), !.shared = FALSE,
                               !.last = "insert", !.prev = HashMap_default]
       \/ trie' = [trie EXCEPT !.other = HashMap_insert(@, k, v), !.shared = FALSE,
                               !.last = "insert", !.prev = HashMap_default]
  /\ UNCHANGED notTrie

MapRemove ==
  /\ trie.pc = "map"
  /\ \E k \in MapKeys :
       \/ trie' = [trie EXCEPT !.map = HashMap_remove(@, k), !.shared = FALSE,
                               !.last = "remove", !.prev = HashMap_default]
       \/ trie' = [trie EXCEPT !.other = HashMap_remove(@, k), !.shared = FALSE,
                               !.last = "remove", !.prev = HashMap_default]
  /\ UNCHANGED notTrie

MapUnion ==
  /\ trie.pc = "map"
  /\ trie' = [trie EXCEPT !.map = HashMap_union(@, trie.other, trie.shared),
                          !.last = "union", !.prev = trie.map]
  /\ UNCHANGED notTrie

\* other = map.clone()
MapSave ==
  /\ trie.pc = "map"
  /\ trie' = [trie EXCEPT !.other = trie.map, !.shared = TRUE,
                          !.last = "save", !.prev = HashMap_default]
  /\ UNCHANGED notTrie

InitMap ==
  /\ trie = MapInit
  /\ egraph = Idle
  /\ bu = Idle
  /\ fgd = Idle
  /\ td = Idle
  /\ wl = Idle
  /\ ilp = Idle
  /\ driver = Idle
  /\ topk = Idle
  /\ beam = Idle
  /\ dc = Idle

NextMap ==
  \/ MapInsert
  \/ MapRemove
  \/ MapUnion
  \/ MapSave

SpecMap == InitMap /\ [][NextMap]_vars

\* C30: after m.union(o), m compares equal to the map obtained by
\* inserting every entry of o into the previous m: every key of o maps to
\* o's value, every other key of m keeps its value, and len is the number
\* of distinct keys, whatever the values of the keys the two maps share.
C30_UnionIsInsertAll ==
  (trie.pc = "map" /\ trie.last = "union") =>
    /\ HashMap_eq(trie.map,
                  insert_entries(trie.prev, Chunk_for_each(trie.other.node)))
    /\ \A k \in Keys :
         HashMap_get(trie.map, k)
           = IF k \in HashMap_keys(trie.other) THEN HashMap_get(trie.other, k)
             ELSE HashMap_get(trie.prev, k)
    /\ trie.map.len
         = Cardinality(HashMap_keys(trie.prev) \cup HashMap_keys(trie.other))

====
